---- MODULE Spec2Model ----
(***************************************************************************)
(* Verification model of the northstar marketing-automation service.       *)
(*                                                                         *)
(* The repository is a set of loosely coupled components; each is modelled *)
(* as its own state machine over its own variables and has its own         *)
(* specification:                                                          *)
(*   SpecRL      RateLimiter.is_allowed   (api/middleware/rate_limiting)   *)
(*   SpecEA      EngagementAgent.engage   (agents/engagement_agent)        *)
(*   SpecUser    User entity              (core/domain/entities/user)      *)
(*   SpecContent Content entity           (core/domain/entities/content)   *)
(*   SpecGen     ContentService.generate_content                           *)
(*   SpecPub     ContentService.schedule_content / publish_content and the *)
(*               DELETE /content/{id} controller                           *)
(*   SpecMW      RateLimitMiddleware      (api/middleware/rate_limiting)   *)
(*   SpecWrap    the rate_limit decorator (api/middleware/rate_limiting)   *)
(*   SpecTrim    ContentAgent._trim_to_limit       (agents/content_agent)  *)
(*   SpecSched   PostScheduler.add_optimal_time_scheduling                 *)
(*   SpecErr     GlobalErrorHandler       (api/middleware/error_handler)   *)
(*   SpecJwt     JWTManager               (api/middleware/auth)            *)
(*   SpecDi      Container                (infrastructure/di/container)    *)
(*   SpecQueue   ContentQueue             (utils/scheduler)                *)
(*   SpecCg      interleaved ContentService.generate_content requests      *)
(*   SpecCp      interleaved ContentService.publish_content requests       *)
(*   SpecRw      the rate_limit decorator with several windows             *)
(*   SpecPs      PostScheduler job status tracking  (utils/scheduler)      *)
(* In every specification the variables of the other components keep the   *)
(* single value they have after construction.                              *)
(***************************************************************************)
EXTENDS Integers, Sequences, FiniteSets, TLC

VARIABLES
    \* ---- RateLimiter (one Redis sorted set per rate key) ----
    redis_client,   \* TRUE: a client object exists; FALSE: None (line 32)
    zset,           \* rate key -> set of members; member str(t) has score t
    zexpire,        \* rate key -> {} (no TTL) or {t}: second the TTL was set
    rl_now,         \* int(time.time())
    rl_limit,       \* the limit the caller passes for the keys
    rl_window,      \* the window_seconds the caller passes for the keys
    rl_last,        \* the latest is_allowed call and what it returned
    rl_seen,        \* rate key -> the seconds in which it has been called
    rl_n,           \* rate key -> number of calls made on it so far
    rl_clean,       \* rate key -> no call on it has failed open so far
    rl_admitted,    \* rate key -> second -> calls of that second admitted
    \* ---- EngagementAgent ----
    engagement_count,
    last_reset,
    ea_now,         \* datetime.utcnow(), in hours
    ea_last,        \* what the latest engage() returned
    ea_ok,          \* engage() calls since the last reset that completed
                    \* without a fault (reply or safe template)
    ea_was_limited, \* some engage() has returned rate_limited
    \* ---- User entity ----
    user,           \* one User object
    u_last,         \* the latest method called on it and what it returned
    \* ---- Content entity ----
    content,        \* one Content object
    c_now,          \* datetime.utcnow()
    c_last,         \* the latest method called on it and what it raised
    \* ---- ContentService, its repositories and collaborators ----
    users,          \* user repository: user id -> stored User
    contents,       \* content repository: content id -> stored Content
    scheduled_posts,\* content ids registered by SocialMediaService.schedule_post
    svc_now,        \* datetime.utcnow()
    svc_last,       \* the latest request, its faults and its outcome
    \* ---- HTTP layer in front of the handlers ----
    http_last,      \* what RateLimitMiddleware / the rate_limit wrapper did
                    \* with the latest request
    \* ---- ContentAgent._trim_to_limit ----
    trim_content,   \* the generated body, a sequence of characters
    trim_limit,     \* the platform limit
    trim_result,    \* what _trim_to_limit returned
    trim_done,       \* _trim_to_limit has been called
    \* ---- PostScheduler ----
    sched_now,      \* datetime.utcnow() at the call
    sched_platform, \* the platform argument
    jobs,            \* self.jobs: the registered jobs
    \* ---- GlobalErrorHandler ----
    err_exc,        \* the exception handed to handle_exception
    err_request_id, \* request.state.request_id: {} when not set, else {id}
    err_response,    \* {} before the call, then {the JSONResponse returned}
    \* ---- JWTManager ----
    jw_now,         \* datetime.utcnow(), in ticks
    jw_offset,      \* local time of the server minus UTC, in ticks
    jw_tokens,      \* the tokens create_tokens has handed out
    jw_last,         \* the latest token operation and how it ended
    \* ---- DI Container ----
    _services,      \* key -> {} or {the instance registered or cached}
    _singletons,    \* key -> {} or {implementation class}
    _transients,    \* key -> {} or {implementation class}
    _factories,     \* key -> {} or {class the factory function builds}
    di_next,        \* identity the next object created will get
    di_regs,        \* number of register_* calls made so far
    di_modes,       \* key -> the ways the key has been registered or, when
                    \* it was resolved without registration, "direct"
    di_resolved,    \* key -> resolve has been called, nested calls included
    di_smade,       \* key -> instantiations made by the singleton branch
    di_first,       \* key -> {} or {the first instance resolve(key) returned}
    di_same,        \* key -> every resolve(key) returned the same instance
    di_last,         \* the latest resolve call of a caller
    \* ---- ContentQueue ----
    queue,          \* self.queue
    processed,      \* self.processed
    cq_added,       \* number of add_to_queue calls made so far
    cq_last,         \* the latest ContentQueue call and what it returned
    \* ---- interleaved generate_content requests of one user ----
    cg_user,        \* the user as the user repository holds it
    cg_items,       \* content items created for the user since the reset
    cg_pc,          \* request -> the await it is suspended at
    cg_local,        \* request -> its `user`, as get_by_id gave it
    \* ---- interleaved publish_content requests for one content item ----
    cp_content,     \* the item as the content repository holds it
    cp_pc,          \* request -> the await it is suspended at
    cp_local,       \* request -> its `content`, as get_by_id gave it
    cp_client_calls, \* publish_post calls made for the item
    \* ---- rate_limit decorator with several windows ----
    rw_limits,      \* per_minute, per_hour, per_day: {} for None, else {n}
    rw_zset,        \* key suffix -> members of the identity's sorted set
    rw_now,         \* int(time.time()), in ticks
    rw_last,         \* the latest wrapped call and how it ended
    \* ---- PostScheduler job status ----
    ps_jobs,        \* self.jobs, in insertion order: job id, platform, status
    ps_armed,       \* the jobs the background scheduler holds and has not run
    ps_executed,    \* ids of the jobs _execute_post has run for
    ps_adding,      \* {} or {the job a schedule_post call has added to the
                    \* scheduler but not yet written to self.jobs}
    ps_count        \* schedule_post calls so far

rlVars == <<redis_client, zset, zexpire, rl_now, rl_limit, rl_window,
            rl_last, rl_seen, rl_n, rl_clean, rl_admitted>>
eaVars == <<engagement_count, last_reset, ea_now, ea_last, ea_ok,
            ea_was_limited>>
userVars == <<user, u_last>>
entVars == <<content, c_now, c_last>>
svcVars == <<users, contents, scheduled_posts, svc_now, svc_last>>
httpVars == <<http_last>>
trimVars == <<trim_content, trim_limit, trim_result, trim_done>>
schedVars == <<sched_now, sched_platform, jobs>>
errVars == <<err_exc, err_request_id, err_response>>
jwtVars == <<jw_now, jw_offset, jw_tokens, jw_last>>
diVars == <<_services, _singletons, _transients, _factories, di_next, di_regs, di_modes, di_resolved, di_smade, di_first, di_same, di_last>>
queueVars == <<queue, processed, cq_added, cq_last>>
cgVars == <<cg_user, cg_items, cg_pc, cg_local>>
cpVars == <<cp_content, cp_pc, cp_local, cp_client_calls>>
rwVars == <<rw_limits, rw_zset, rw_now, rw_last>>
psVars == <<ps_jobs, ps_armed, ps_executed, ps_adding, ps_count>>
vars == <<rlVars, eaVars, userVars, entVars, svcVars, httpVars, trimVars, schedVars, errVars, jwtVars, diVars, queueVars, cgVars, cpVars, rwVars, psVars>>

\* What a component leaves alone: everything outside itself.
OutsideRl == <<eaVars, userVars, entVars, svcVars, httpVars, trimVars, schedVars, errVars, jwtVars, diVars, queueVars, cgVars, cpVars, rwVars, psVars>>
OutsideEa == <<rlVars, userVars, entVars, svcVars, httpVars, trimVars, schedVars, errVars, jwtVars, diVars, queueVars, cgVars, cpVars, rwVars, psVars>>
OutsideUser == <<rlVars, eaVars, entVars, svcVars, httpVars, trimVars, schedVars, errVars, jwtVars, diVars, queueVars, cgVars, cpVars, rwVars, psVars>>
OutsideEnt == <<rlVars, eaVars, userVars, svcVars, httpVars, trimVars, schedVars, errVars, jwtVars, diVars, queueVars, cgVars, cpVars, rwVars, psVars>>
OutsideSvc == <<rlVars, eaVars, userVars, entVars, httpVars, trimVars, schedVars, errVars, jwtVars, diVars, queueVars, cgVars, cpVars, rwVars, psVars>>
\* the HTTP layer calls the rate limiter
OutsideHttp == <<eaVars, userVars, entVars, svcVars, trimVars, schedVars, errVars, jwtVars, diVars, queueVars, cgVars, cpVars, rwVars, psVars>>
OutsideTrim == <<rlVars, eaVars, userVars, entVars, svcVars, httpVars, schedVars, errVars, jwtVars, diVars, queueVars, cgVars, cpVars, rwVars, psVars>>
OutsideSched == <<rlVars, eaVars, userVars, entVars, svcVars, httpVars, trimVars, errVars, jwtVars, diVars, queueVars, cgVars, cpVars, rwVars, psVars>>
OutsideErr == <<rlVars, eaVars, userVars, entVars, svcVars, httpVars, trimVars, schedVars, jwtVars, diVars, queueVars, cgVars, cpVars, rwVars, psVars>>
OutsideJwt == <<rlVars, eaVars, userVars, entVars, svcVars, httpVars, trimVars, schedVars, errVars, diVars, queueVars, cgVars, cpVars, rwVars, psVars>>
OutsideDi == <<rlVars, eaVars, userVars, entVars, svcVars, httpVars, trimVars, schedVars, errVars, jwtVars, queueVars, cgVars, cpVars, rwVars, psVars>>
OutsideQueue == <<rlVars, eaVars, userVars, entVars, svcVars, httpVars, trimVars, schedVars, errVars, jwtVars, diVars, cgVars, cpVars, rwVars, psVars>>
OutsideCg == <<rlVars, eaVars, userVars, entVars, svcVars, httpVars, trimVars, schedVars, errVars, jwtVars, diVars, queueVars, cpVars, rwVars, psVars>>
OutsideCp == <<rlVars, eaVars, userVars, entVars, svcVars, httpVars, trimVars, schedVars, errVars, jwtVars, diVars, queueVars, cgVars, rwVars, psVars>>
OutsideRw == <<rlVars, eaVars, userVars, entVars, svcVars, httpVars, trimVars, schedVars, errVars, jwtVars, diVars, queueVars, cgVars, cpVars, psVars>>
OutsidePs == <<rlVars, eaVars, userVars, entVars, svcVars, httpVars, trimVars, schedVars, errVars, jwtVars, diVars, queueVars, cgVars, cpVars, rwVars>>

(***************************************************************************)
(* Bounds of the model.                                                    *)
(***************************************************************************)
MaxRlNow == 4        \* seconds the rate limiter's clock runs through
MaxLimit == 3        \* largest limit a caller passes
MaxWindow == 3       \* largest window a caller passes
MaxCalls == 4        \* is_allowed calls per rate key
MaxEaNow == 26       \* hours the engagement agent's clock runs through

(***************************************************************************)
(* RateLimiter                                                             *)
(***************************************************************************)
RateKeys == {"ka"}

\* The info dict of is_allowed; {} is the dict of the fail-open returns.
\* retry_after is {} for None and {w} for the number w.
NoInfo == [present |-> FALSE, limit |-> 0, remaining |-> 0, reset |-> 0,
           retry_after |-> {}]

\* The store commands that can raise inside the try block of is_allowed.
RlFaults == {"none", "zremrangebyscore", "zcard", "zadd", "expire", "execute"}

\* The members Redis still holds for a key: a key whose TTL (EXPIRE) has run
\* out is gone.  The TTL is set in second t and runs window seconds.
ZLive(key) ==
    IF zexpire[key] # {} /\ (\E t \in zexpire[key] : rl_now > t + rl_window)
    THEN {} ELSE zset[key]

\* ZREMRANGEBYSCORE key 0 window_start
zremrangebyscore(members, lo, hi) == {m \in members : ~(lo <= m /\ m <= hi)}

\* ZADD key {str(current_time): current_time}: the member is the second
\* itself, so a second call in the same second rewrites the same member.
zadd(members, current_time) == members \cup {current_time}

\* ZCARD key
zcard(members) == Cardinality(members)

\* Faulty variant (against C11): a failed check denies the request
fail_closed(members, expire) ==
    [allowed |-> FALSE, info |-> NoInfo, failed |-> TRUE,
     members |-> members, expire |-> expire]

\* `return True, {}` of lines 46 and 96, with what the key holds by then
fail_open(members, expire) ==
    [allowed |-> TRUE, info |-> NoInfo, failed |-> TRUE,
     members |-> members, expire |-> expire]

\* is_allowed(key, limit, window_seconds) with the store command `fault`
\* raising (or none).  Returns the pair (allowed, info) as a record, and the
\* members and TTL the key has afterwards.
is_allowed_result(key, limit, window_seconds, fault) ==
    LET current_time == rl_now
        window_start == current_time - window_seconds
        before       == ZLive(key)
        pruned       == zremrangebyscore(before, 0, window_start)
        current_count == zcard(pruned)
    IN  IF ~redis_client
        THEN fail_open(zset[key], zexpire[key])
        ELSE IF fault = "zremrangebyscore"
        THEN fail_open(before, zexpire[key])
        ELSE IF fault = "zcard"
        THEN fail_open(pruned, zexpire[key])
        ELSE IF current_count < limit
        THEN IF fault = "zadd"
             THEN fail_open(pruned, zexpire[key])
             ELSE IF fault = "expire"
             THEN fail_open(zadd(pruned, current_time), zexpire[key])
             ELSE IF fault = "execute"
             THEN fail_open(zadd(pruned, current_time), {current_time})
             ELSE [allowed |-> TRUE,
                   info |-> [present |-> TRUE, limit |-> limit,
                             remaining |-> limit - current_count - 1,
                             reset |-> current_time + window_seconds,
                             retry_after |-> {}],
                   failed |-> FALSE,
                   members |-> zadd(pruned, current_time),
                   expire |-> {current_time}]
        ELSE [allowed |-> FALSE,
              info |-> [present |-> TRUE, limit |-> limit, remaining |-> 0,
                        reset |-> current_time + window_seconds,
                        retry_after |-> {window_seconds}],
              failed |-> FALSE,
              members |-> pruned,
              expire |-> zexpire[key]]

\* One call of RateLimiter.is_allowed on a key, by whoever makes it.
is_allowed_call(key, fault) ==
    /\ rl_n[key] < MaxCalls
    \* zadd, expire and execute are only issued on the admitting branch
    /\ fault \in {"zadd", "expire", "execute"} =>
          /\ redis_client
          /\ zcard(zremrangebyscore(ZLive(key), 0, rl_now - rl_window)) < rl_limit
    /\ fault # "none" => redis_client
    /\ LET r == is_allowed_result(key, rl_limit, rl_window, fault)
       IN  /\ zset' = [zset EXCEPT ![key] = r.members]
           /\ zexpire' = [zexpire EXCEPT ![key] = r.expire]
           /\ rl_last' = [key |-> key, time |-> rl_now, allowed |-> r.allowed,
                          info |-> r.info]
           /\ rl_clean' = [rl_clean EXCEPT ![key] = @ /\ ~r.failed]
           /\ rl_admitted' = [rl_admitted EXCEPT ![key][rl_now] =
                                  IF r.allowed THEN @ + 1 ELSE @]
    /\ rl_seen' = [rl_seen EXCEPT ![key] = @ \cup {rl_now}]
    /\ rl_n' = [rl_n EXCEPT ![key] = @ + 1]
    /\ UNCHANGED <<redis_client, rl_now, rl_limit, rl_window>>

\* One call of RateLimiter.is_allowed on a key, made on the limiter itself.
is_allowed(key, fault) ==
    /\ is_allowed_call(key, fault)
    /\ UNCHANGED OutsideRl

\* A second passes.
RlTick ==
    /\ rl_now < MaxRlNow
    /\ rl_now' = rl_now + 1
    /\ UNCHANGED <<redis_client, zset, zexpire, rl_limit, rl_window, rl_last,
                   rl_seen, rl_n, rl_clean, rl_admitted>>
    /\ UNCHANGED OutsideRl

\* RateLimiter.__init__ / _initialize_redis: the client is created or, when
\* from_url raises, left None.  No key has been touched.
RlConstructed ==
    /\ zset = [k \in RateKeys |-> {}]
    /\ zexpire = [k \in RateKeys |-> {}]
    /\ rl_now = 0
    /\ rl_last = [key |-> "", time |-> 0, allowed |-> TRUE, info |-> NoInfo]
    /\ rl_seen = [k \in RateKeys |-> {}]
    /\ rl_n = [k \in RateKeys |-> 0]
    /\ rl_clean = [k \in RateKeys |-> TRUE]
    /\ rl_admitted = [k \in RateKeys |-> [t \in 0..MaxRlNow |-> 0]]

RlInit ==
    /\ redis_client \in BOOLEAN
    /\ rl_limit \in 1..MaxLimit
    /\ rl_window \in 1..MaxWindow
    /\ RlConstructed

RlIdle ==
    /\ redis_client = TRUE
    /\ rl_limit = 1
    /\ rl_window = 1
    /\ RlConstructed

RlNext ==
    \/ \E key \in RateKeys, fault \in RlFaults : is_allowed(key, fault)
    \/ RlTick

(***************************************************************************)
(* EngagementAgent                                                         *)
(***************************************************************************)
daily_limit == 50
DayHours == 24

\* What the completion service does with the request engage() sends it.
Completions == {"reply", "spam_reply", "api_error"}

\* _check_rate_limit: the reset it performs, as the new (count, last_reset).
check_reset(count, reset, now) ==
    IF now - reset > DayHours
    THEN [count |-> 0, last_reset |-> now]
    ELSE [count |-> count, last_reset |-> reset]

\* Faulty variant (against C2): the comparison lets the count reach daily_limit + 1
check_rate_limit_inclusive(count) == count <= daily_limit

\* _check_rate_limit: its return value, on the count after the reset.
check_rate_limit(count) == count < daily_limit

\* engage(platform, post_id, context)
engage(completion) ==
    LET r == check_reset(engagement_count, last_reset, ea_now)
        was_reset == ea_now - last_reset > DayHours
        ok_before == IF was_reset THEN 0 ELSE ea_ok
    IN  /\ last_reset' = r.last_reset
        /\ IF ~check_rate_limit(r.count)
           THEN /\ engagement_count' = r.count
                /\ ea_last' = [status |-> "rate_limited", source |-> "none",
                               completion_called |-> FALSE]
                /\ ea_ok' = ok_before
                /\ ea_was_limited' = TRUE
           ELSE IF completion = "api_error"
           THEN \* _generate_response re-raises; engage() falls back
                /\ engagement_count' = r.count
                /\ ea_last' = [status |-> "success", source |-> "fallback",
                               completion_called |-> TRUE]
                /\ ea_ok' = ok_before
                /\ UNCHANGED ea_was_limited
           ELSE /\ engagement_count' = r.count + 1
                /\ ea_last' = [status |-> "success",
                               source |-> IF completion = "spam_reply"
                                          THEN "safe_fallback" ELSE "completion",
                               completion_called |-> TRUE]
                /\ ea_ok' = ok_before + 1
                /\ UNCHANGED ea_was_limited
        /\ UNCHANGED ea_now
        /\ UNCHANGED OutsideEa

\* An hour passes.
EaTick ==
    /\ ea_now < MaxEaNow
    /\ ea_now' = ea_now + 1
    /\ UNCHANGED <<engagement_count, last_reset, ea_last, ea_ok, ea_was_limited>>
    /\ UNCHANGED OutsideEa

\* EngagementAgent.__init__
EaInit ==
    /\ engagement_count = 0
    /\ last_reset = 0
    /\ ea_now = 0
    /\ ea_last = [status |-> "none", source |-> "none",
                  completion_called |-> FALSE]
    /\ ea_ok = 0
    /\ ea_was_limited = FALSE

EaNext ==
    \/ \E completion \in Completions : engage(completion)
    \/ EaTick


(***************************************************************************)
(* User entity                                                             *)
(* A User is the record of the fields the business rules read and write;   *)
(* the timestamps (updated_at, last_activity) are not modelled.            *)
(***************************************************************************)
MaxGenerations == 12   \* monthly_generations the model counts up to
MaxEngagements == 52   \* monthly_engagements the model counts up to

UserTier == {"free", "pro", "enterprise"}
UserStatus == {"active", "inactive", "suspended"}

\* A usage limit: a number, or float('inf').
Finite(n) == [finite |-> TRUE, n |-> n]
Infinite == [finite |-> FALSE, n |-> 0]
\* x < limit, as Python compares an int with an int or with float('inf')
LessThan(x, limit) == ~limit.finite \/ x < limit.n

\* the `limits` dict of can_generate_content
generation_limits(tier) ==
    CASE tier = "free" -> Finite(10)
      [] tier = "pro" -> Infinite
      [] tier = "enterprise" -> Infinite

\* the `limits` dict of can_auto_engage
engagement_limits(tier) ==
    CASE tier = "free" -> Finite(0)
      [] tier = "pro" -> Finite(50)
      [] tier = "enterprise" -> Infinite

\* Faulty variant (against C10): the limit itself still admits
can_generate_content_inclusive(u) ==
    IF u.status # "active"
    THEN FALSE
    ELSE \/ ~generation_limits(u.tier).finite
         \/ u.monthly_generations <= generation_limits(u.tier).n

can_generate_content(u) ==
    IF u.status # "active"
    THEN FALSE
    ELSE LessThan(u.monthly_generations, generation_limits(u.tier))

can_auto_engage(u) ==
    IF u.status # "active"
    THEN FALSE
    ELSE LessThan(u.monthly_engagements, engagement_limits(u.tier))

\* Faulty variant (against C8): the usage is not counted
increment_generation_count_lost(u) == u

increment_generation_count(u) ==
    [u EXCEPT !.monthly_generations = @ + 1]

increment_engagement_count(u) ==
    [u EXCEPT !.monthly_engagements = @ + 1]

reset_monthly_usage(u) ==
    [u EXCEPT !.monthly_generations = 0, !.monthly_engagements = 0]

tier_hierarchy(tier) ==
    CASE tier = "free" -> 0
      [] tier = "pro" -> 1
      [] tier = "enterprise" -> 2

\* Faulty variant (against C9): only a lower tier is refused; the same tier is re-applied
upgrade_tier_same_allowed(u, new_tier) ==
    IF tier_hierarchy(new_tier) < tier_hierarchy(u.tier)
    THEN [raised |-> TRUE, user |-> u]
    ELSE [raised |-> FALSE, user |-> [u EXCEPT !.tier = new_tier]]

\* upgrade_tier(new_tier): raised is TRUE when it raises ValueError, and the
\* user is then as before.
upgrade_tier(u, new_tier) ==
    IF tier_hierarchy(new_tier) <= tier_hierarchy(u.tier)
    THEN [raised |-> TRUE, user |-> u]
    ELSE [raised |-> FALSE, user |-> [u EXCEPT !.tier = new_tier]]

\* A User as its constructor makes it.
NewUser(tier, status, generations, engagements) ==
    [exists |-> TRUE, tier |-> tier, status |-> status,
     monthly_generations |-> generations, monthly_engagements |-> engagements]

\* ---- the methods called on the one User object of SpecUser ----
ULast(op, arg, value, raised) ==
    [op |-> op, arg |-> arg, value |-> value, raised |-> raised]

UCanGenerateContent ==
    /\ u_last' = ULast("can_generate_content", "", can_generate_content(user), FALSE)
    /\ UNCHANGED user
    /\ UNCHANGED OutsideUser

UCanAutoEngage ==
    /\ u_last' = ULast("can_auto_engage", "", can_auto_engage(user), FALSE)
    /\ UNCHANGED user
    /\ UNCHANGED OutsideUser

UIncrementGenerationCount ==
    /\ user.monthly_generations < MaxGenerations
    /\ user' = increment_generation_count(user)
    /\ u_last' = ULast("increment_generation_count", "", FALSE, FALSE)
    /\ UNCHANGED OutsideUser

UIncrementEngagementCount ==
    /\ user.monthly_engagements < MaxEngagements
    /\ user' = increment_engagement_count(user)
    /\ u_last' = ULast("increment_engagement_count", "", FALSE, FALSE)
    /\ UNCHANGED OutsideUser

UResetMonthlyUsage ==
    /\ user' = reset_monthly_usage(user)
    /\ u_last' = ULast("reset_monthly_usage", "", FALSE, FALSE)
    /\ UNCHANGED OutsideUser

UUpgradeTier(new_tier) ==
    LET r == upgrade_tier(user, new_tier)
    IN  /\ user' = r.user
        /\ u_last' = ULast("upgrade_tier", new_tier, FALSE, r.raised)
        /\ UNCHANGED OutsideUser

\* User(email=..., tier=..., status=...): the counters default to 0.
UserInit ==
    /\ \E tier \in UserTier, status \in UserStatus :
          user = NewUser(tier, status, 0, 0)
    /\ u_last = ULast("none", "", FALSE, FALSE)

UserIdle ==
    /\ user = NewUser("free", "active", 0, 0)
    /\ u_last = ULast("none", "", FALSE, FALSE)

UserNext ==
    \/ UCanGenerateContent
    \/ UCanAutoEngage
    \/ UIncrementGenerationCount
    \/ UIncrementEngagementCount
    \/ UResetMonthlyUsage
    \/ \E new_tier \in UserTier : UUpgradeTier(new_tier)

(***************************************************************************)
(* Content entity                                                          *)
(* A Content is the record of the fields the rules read and write.  The    *)
(* Optional fields are sets: {} is None, {v} is the value v.  `error` is   *)
(* generation_parameters['error'].                                         *)
(***************************************************************************)
MaxCNow == 2           \* time units the entity's clock runs through
MaxText == 1           \* longest body text of the entity of SpecContent

ContentStatus == {"draft", "scheduled", "published", "failed", "archived"}
ExternalIds == {"p1", "p2"}
ErrorTexts == {"API Error", "store error"}

NewContent(user_id, platform, status, text_len, media_count) ==
    [exists |-> TRUE, user_id |-> user_id, platform |-> platform,
     status |-> status, text_len |-> text_len, media_count |-> media_count,
     scheduled_for |-> {}, external_id |-> {}, external_url |-> {},
     error |-> {}]

\* Faulty variant (against C14): a body of exactly 280 is refused too
post_init_raises_at_limit(user_id, platform, text_len, media_count) ==
    \/ user_id = ""
    \/ (text_len = 0 /\ media_count = 0)
    \/ (platform = "twitter" /\ text_len >= 280)

\* __post_init__: TRUE when it raises ValueError.
post_init_raises(user_id, platform, text_len, media_count) ==
    \/ user_id = ""
    \/ (text_len = 0 /\ media_count = 0)
    \/ (platform = "twitter" /\ text_len > 280)

\* Faulty variant (against C5): a failed publication may be retried
can_be_published_retry(c) ==
    /\ c.status \in {"draft", "scheduled", "failed"}
    /\ (c.text_len > 0 \/ c.media_count > 0)

can_be_published(c) ==
    /\ c.status \in {"draft", "scheduled"}
    /\ (c.text_len > 0 \/ c.media_count > 0)
    /\ TRUE     \* self.platform is not None: the platform is always set

\* Faulty variant (against C3): the current instant counts as the future
schedule_now_allowed(c, scheduled_time, now) ==
    IF ~can_be_published(c)
    THEN [raised |-> "ValueError", content |-> c]
    ELSE IF scheduled_time < now
    THEN [raised |-> "ValueError", content |-> c]
    ELSE [raised |-> "",
          content |-> [c EXCEPT !.scheduled_for = {scheduled_time},
                                !.status = "scheduled"]]

\* schedule(scheduled_time) at time now: raised is "" when it returns, else
\* the kind of fault; the content is then as before.
schedule(c, scheduled_time, now) ==
    IF ~can_be_published(c)
    THEN [raised |-> "ValueError", content |-> c]
    ELSE IF scheduled_time <= now
    THEN [raised |-> "ValueError", content |-> c]
    ELSE [raised |-> "",
          content |-> [c EXCEPT !.scheduled_for = {scheduled_time},
                                !.status = "scheduled"]]

publish(c, external_id, external_url) ==
    [c EXCEPT !.status = "published", !.external_id = {external_id},
              !.external_url = {external_url}]

\* Faulty variant (against C4): the error text is not stored
fail_publication_no_text(c, error_message) ==
    [c EXCEPT !.status = "failed"]

fail_publication(c, error_message) ==
    [c EXCEPT !.status = "failed", !.error = {error_message}]

archive(c) == [c EXCEPT !.status = "archived"]

\* ---- the methods called on the one Content object of SpecContent ----
CLast(op, arg, raised) == [op |-> op, arg |-> arg, raised |-> raised]

CSchedule(scheduled_time) ==
    LET r == schedule(content, scheduled_time, c_now)
    IN  /\ content' = r.content
        /\ c_last' = CLast("schedule", scheduled_time, r.raised)
        /\ UNCHANGED c_now
        /\ UNCHANGED OutsideEnt

CPublish(external_id) ==
    /\ content' = publish(content, external_id, external_id)
    /\ c_last' = CLast("publish", 0, "")
    /\ UNCHANGED c_now
    /\ UNCHANGED OutsideEnt

CFailPublication(error_message) ==
    /\ content' = fail_publication(content, error_message)
    /\ c_last' = CLast("fail_publication", 0, "")
    /\ UNCHANGED c_now
    /\ UNCHANGED OutsideEnt

CArchive ==
    /\ content' = archive(content)
    /\ c_last' = CLast("archive", 0, "")
    /\ UNCHANGED c_now
    /\ UNCHANGED OutsideEnt

\* get_character_count(): len(self.text)
get_character_count(c) == c.text_len

\* The arguments Content(...) is constructed with.
ConstructUserIds == {"", "u1"}
ConstructPlatforms == {"twitter", "linkedin"}
ConstructLens == {0, 1, 280, 281}

\* Content(user_id=..., platform=..., text=..., media_urls=...): the
\* dataclass sets the fields, then __post_init__ runs; when it raises, no
\* object comes to be and the one at hand stays.
CConstruct(user_id, platform, text_len, media_count) ==
    /\ IF post_init_raises(user_id, platform, text_len, media_count)
       THEN /\ content' = content
            /\ c_last' = CLast("construct", text_len, "ValueError")
       ELSE /\ content' = NewContent(user_id, platform, "draft", text_len,
                                     media_count)
            /\ c_last' = CLast("construct", text_len, "")
    /\ UNCHANGED c_now
    /\ UNCHANGED OutsideEnt

CTick ==
    /\ c_now < MaxCNow
    /\ c_now' = c_now + 1
    /\ UNCHANGED <<content, c_last>>
    /\ UNCHANGED OutsideEnt

\* Content(user_id=..., text=..., media_urls=..., status=...): only the
\* objects __post_init__ accepts exist.
ContentInit ==
    /\ \E status \in ContentStatus, text_len \in 0..MaxText, media_count \in 0..1 :
          /\ ~post_init_raises("u1", "twitter", text_len, media_count)
          /\ content = NewContent("u1", "twitter", status, text_len, media_count)
    /\ c_now = 0
    /\ c_last = CLast("none", 0, "")

ContentIdle ==
    /\ content = NewContent("u1", "twitter", "draft", 1, 0)
    /\ c_now = 0
    /\ c_last = CLast("none", 0, "")

ContentNext ==
    \/ \E scheduled_time \in 0..(MaxCNow + 1) : CSchedule(scheduled_time)
    \/ \E external_id \in ExternalIds : CPublish(external_id)
    \/ \E error_message \in ErrorTexts : CFailPublication(error_message)
    \/ CArchive
    \/ \E user_id \in ConstructUserIds, platform \in ConstructPlatforms,
          text_len \in ConstructLens, media_count \in 0..1 :
            CConstruct(user_id, platform, text_len, media_count)
    \/ CTick

(***************************************************************************)
(* ContentService, the repositories it uses, and the DELETE controller     *)
(*                                                                         *)
(* A request is handled in one step.  Each handler takes, besides its      *)
(* arguments, what its collaborators do: `fault` names the repository or   *)
(* service call of the handler that raises (or "none").                    *)
(* svc_last records the outcome of the latest request ("ok" or the name of *)
(* the fault that leaves the handler) and which collaborators it called.   *)
(***************************************************************************)
MaxContents == 3       \* content ids the repository can hold
MaxSvcNow == 2         \* time units the service's clock runs through

UserIds == {"u1", "u2", "u3"}
ContentIds == 1..MaxContents
\* SpecPub: the id of the content item stored at the start, and the ids its
\* requests name (the stored one and one that is not stored)
StoredIds == {1}
PubIds == {1, 2}

NoUser == [exists |-> FALSE, tier |-> "free", status |-> "inactive",
           monthly_generations |-> 0, monthly_engagements |-> 0]
NoContent == [exists |-> FALSE, user_id |-> "", platform |-> "",
              status |-> "draft", text_len |-> 0, media_count |-> 0,
              scheduled_for |-> {}, external_id |-> {}, external_url |-> {},
              error |-> {}]

SvcLast(op, content_id, outcome, http, ai_called, client_called) ==
    [op |-> op, content_id |-> content_id, outcome |-> outcome, http |-> http,
     ai_called |-> ai_called, client_called |-> client_called]

\* ---- generate_content ----
GenFaults == {"none", "user_get", "ai", "content_create", "user_update",
              "predict"}

\* CreateContentRequest, by what _validate_content_request reads of it
Requests ==
    { [prompt_len |-> 20, stripped_len |-> 20, platform |-> "twitter", audience_len |-> 0],
      [prompt_len |-> 12, stripped_len |-> 9, platform |-> "twitter", audience_len |-> 0],
      [prompt_len |-> 1001, stripped_len |-> 1001, platform |-> "twitter", audience_len |-> 0],
      [prompt_len |-> 20, stripped_len |-> 20, platform |-> "myspace", audience_len |-> 0],
      [prompt_len |-> 20, stripped_len |-> 20, platform |-> "twitter", audience_len |-> 201] }

\* lengths of ai_result.primary_content
AiTexts == {0, 1, 281}

Platform == {"twitter", "instagram", "linkedin", "tiktok", "facebook"}

\* _validate_content_request: TRUE when it raises ValidationError
validate_content_request_raises(request) ==
    \/ request.prompt_len = 0 \/ request.stripped_len < 10
    \/ request.prompt_len > 1000
    \/ request.platform \notin Platform
    \/ (request.audience_len > 0 /\ request.audience_len > 200)

\* uuid.uuid4(): an id no stored content has
FreeIds == {c \in ContentIds : ~contents[c].exists}
FreshId == CHOOSE c \in FreeIds : \A d \in FreeIds : c <= d

\* The outcome of generate_content and the repositories after it.
generate_content_result(user_id, request, ai_text_len, fault) ==
    LET u == users[user_id]
        res(f, outcome, ai, us, cs, cid) ==
            [fault |-> f, outcome |-> outcome, ai_called |-> ai,
             users |-> us, contents |-> cs, content_id |-> cid]
        c == NewContent(user_id, request.platform, "draft", ai_text_len, 0)
        saved == [contents EXCEPT ![FreshId] = c]
        counted == [users EXCEPT ![user_id] = increment_generation_count(u)]
    IN  IF fault = "user_get"
        THEN res(fault, "StoreFault", FALSE, users, contents, 0)
        ELSE IF ~u.exists
        THEN res("none", "UserNotFoundError", FALSE, users, contents, 0)
        ELSE IF ~can_generate_content(u)
        THEN res("none", "InsufficientCreditsError", FALSE, users, contents, 0)
        ELSE IF validate_content_request_raises(request)
        THEN res("none", "ValidationError", FALSE, users, contents, 0)
        \* inside the try block: every fault leaves as ContentGenerationError
        ELSE IF fault = "ai"
        THEN res(fault, "ContentGenerationError", TRUE, users, contents, 0)
        ELSE IF post_init_raises(user_id, request.platform, ai_text_len, 0)
        THEN res("none", "ContentGenerationError", TRUE, users, contents, 0)
        ELSE IF fault = "content_create"
        THEN res(fault, "ContentGenerationError", TRUE, users, contents, 0)
        ELSE IF fault = "user_update"
        THEN res(fault, "ContentGenerationError", TRUE, users, saved, FreshId)
        ELSE IF fault = "predict"
        THEN res(fault, "ContentGenerationError", TRUE, counted, saved, FreshId)
        ELSE res("none", "ok", TRUE, counted, saved, FreshId)

\* The handler gets as far as creating a Content.
generate_creates(user_id, request, ai_text_len, fault) ==
    /\ fault \notin {"user_get", "ai"}
    /\ users[user_id].exists
    /\ can_generate_content(users[user_id])
    /\ ~validate_content_request_raises(request)
    /\ ~post_init_raises(user_id, request.platform, ai_text_len, 0)

generate_content(user_id, request, ai_text_len, fault) ==
    /\ generate_creates(user_id, request, ai_text_len, fault) =>
          /\ FreeIds # {}
          /\ users[user_id].monthly_generations < MaxGenerations
    /\ LET r == generate_content_result(user_id, request, ai_text_len, fault)
       IN  /\ r.fault = fault       \* the fault named is one the handler meets
           /\ users' = r.users
           /\ contents' = r.contents
           /\ svc_last' = SvcLast("generate", r.content_id, r.outcome, 0,
                                  r.ai_called, FALSE)
    /\ UNCHANGED <<scheduled_posts, svc_now>>
    /\ UNCHANGED OutsideSvc

\* UserRepository.reset_monthly_usage(user_ids), run by the monthly job
ResetMonthlyUsage(user_id) ==
    /\ users[user_id].exists
    /\ users' = [users EXCEPT ![user_id] = reset_monthly_usage(@)]
    /\ svc_last' = SvcLast("reset", 0, "ok", 0, FALSE, FALSE)
    /\ UNCHANGED <<contents, scheduled_posts, svc_now>>
    /\ UNCHANGED OutsideSvc

\* ---- schedule_content ----
SchedFaults == {"none", "user_get", "content_get", "content_update",
                "schedule_post"}

schedule_content_result(user_id, content_id, scheduled_time, fault) ==
    LET c == contents[content_id]
        r == schedule(c, scheduled_time, svc_now)
        res(f, outcome, cs, posts) ==
            [fault |-> f, outcome |-> outcome, contents |-> cs, posts |-> posts]
        updated == [contents EXCEPT ![content_id] = r.content]
    IN  IF fault = "user_get"
        THEN res(fault, "StoreFault", contents, scheduled_posts)
        ELSE IF ~users[user_id].exists
        THEN res("none", "UserNotFoundError", contents, scheduled_posts)
        ELSE IF fault = "content_get"
        THEN res(fault, "StoreFault", contents, scheduled_posts)
        ELSE IF ~c.exists \/ c.user_id # user_id
        THEN res("none", "ValidationError", contents, scheduled_posts)
        \* content.schedule raises ValueError: nothing catches it
        ELSE IF r.raised # ""
        THEN res("none", r.raised, contents, scheduled_posts)
        ELSE IF fault = "content_update"
        THEN res(fault, "StoreFault", contents, scheduled_posts)
        ELSE IF fault = "schedule_post"
        THEN res(fault, "ServiceFault", updated, scheduled_posts)
        ELSE res("none", "ok", updated, scheduled_posts \cup {content_id})

schedule_content(user_id, content_id, scheduled_time, fault) ==
    LET r == schedule_content_result(user_id, content_id, scheduled_time, fault)
    IN  /\ r.fault = fault
        /\ contents' = r.contents
        /\ scheduled_posts' = r.posts
        /\ svc_last' = SvcLast("schedule", content_id, r.outcome, 0,
                               FALSE, FALSE)
        /\ UNCHANGED <<users, svc_now>>
        /\ UNCHANGED OutsideSvc

\* ---- publish_content ----
\* content_update_once: the first _content_repo.update of the call raises;
\* content_update: every _content_repo.update of the call raises.
PubFaults == {"none", "user_get", "content_get", "content_update_once",
              "content_update"}

\* What SocialMediaService.publish_post does: it raises, or returns the id
\* (and url) of the post.
ClientResults == ExternalIds \cup {"error"}

publish_content_result(user_id, content_id, client, fault) ==
    LET c == contents[content_id]
        res(f, outcome, called, cs) ==
            [fault |-> f, outcome |-> outcome, client_called |-> called,
             contents |-> cs]
        published == publish(c, client, client)
        \* the except block: the entity as it is when the fault is caught
        failed_after_client == fail_publication(c, "API Error")
        failed_after_update == fail_publication(published, "store error")
    IN  IF fault = "user_get"
        THEN res(fault, "StoreFault", FALSE, contents)
        ELSE IF ~users[user_id].exists
        THEN res("none", "UserNotFoundError", FALSE, contents)
        ELSE IF fault = "content_get"
        THEN res(fault, "StoreFault", FALSE, contents)
        ELSE IF ~c.exists \/ c.user_id # user_id
        THEN res("none", "ValidationError", FALSE, contents)
        ELSE IF ~can_be_published(c)
        THEN res("none", "ValidationError", FALSE, contents)
        ELSE IF client = "error"
        THEN \* publish_post raised: mark failed, save, raise
             IF fault \in {"content_update_once", "content_update"}
             THEN res(fault, "StoreFault", TRUE, contents)
             ELSE res("none", "ContentGenerationError", TRUE,
                      [contents EXCEPT ![content_id] = failed_after_client])
        ELSE \* publish_post returned
             IF fault = "content_update"
             THEN res(fault, "StoreFault", TRUE, contents)
             ELSE IF fault = "content_update_once"
             THEN res(fault, "ContentGenerationError", TRUE,
                      [contents EXCEPT ![content_id] = failed_after_update])
             ELSE res("none", "ok", TRUE,
                      [contents EXCEPT ![content_id] = published])

publish_content(user_id, content_id, client, fault) ==
    LET r == publish_content_result(user_id, content_id, client, fault)
    IN  /\ r.fault = fault
        \* the client's answer matters only when the client is called
        /\ ~r.client_called => client = "error"
        /\ contents' = r.contents
        /\ svc_last' = SvcLast("publish", content_id, r.outcome, 0,
                               FALSE, r.client_called)
        /\ UNCHANGED <<users, scheduled_posts, svc_now>>
        /\ UNCHANGED OutsideSvc

\* ---- DELETE /content/{content_id} ----
DelFaults == {"none", "content_get", "content_delete"}

\* What is raised inside the try block of delete_content ("" when nothing).
\* ContentRepository.delete returns False only for a row that is not there,
\* which the test on the line before excludes within one step.
delete_content_raised(user_id, content_id, fault) ==
    LET c == contents[content_id]
    IN  IF fault = "content_get" THEN "StoreFault"
        ELSE IF ~c.exists \/ c.user_id # user_id THEN "HTTP404"
        ELSE IF fault = "content_delete" THEN "StoreFault"
        ELSE ""

\* The status the handler answers with: `except Exception` catches whatever
\* the try block raised, the HTTPException of line 147 included, and raises
\* HTTPException(500).
delete_content_status(raised) == IF raised = "" THEN 200 ELSE 500

delete_content(user_id, content_id, fault) ==
    LET raised == delete_content_raised(user_id, content_id, fault)
        c == contents[content_id]
    IN  /\ fault = "content_delete" => (c.exists /\ c.user_id = user_id)
        /\ contents' = IF raised = ""
                       THEN [contents EXCEPT ![content_id] = NoContent]
                       ELSE contents
        /\ svc_last' = SvcLast("delete", content_id, raised,
                               delete_content_status(raised), FALSE, FALSE)
        /\ UNCHANGED <<users, scheduled_posts, svc_now>>
        /\ UNCHANGED OutsideSvc

SvcTick ==
    /\ svc_now < MaxSvcNow
    /\ svc_now' = svc_now + 1
    /\ UNCHANGED <<users, contents, scheduled_posts, svc_last>>
    /\ UNCHANGED OutsideSvc

\* ---- initial states ----
SvcConstructed ==
    /\ scheduled_posts = {}
    /\ svc_now = 0
    /\ svc_last = SvcLast("none", 0, "", 0, FALSE, FALSE)

\* Nothing stored: the service as the other specifications leave it.
SvcIdle ==
    /\ users = [u \in UserIds |-> NoUser]
    /\ contents = [c \in ContentIds |-> NoContent]
    /\ SvcConstructed

\* SpecGen: one stored user, of any tier and status, with any usage up to the
\* free limit; no content yet.
GenInit ==
    /\ \E tier \in UserTier, status \in UserStatus, g \in 0..10 :
          users = [u \in UserIds |->
                      IF u = "u1" THEN NewUser(tier, status, g, 0) ELSE NoUser]
    /\ contents = [c \in ContentIds |-> NoContent]
    /\ SvcConstructed

\* SpecPub: users u1 and u2 are stored, u3 is not; the content items of
\* StoredIds are stored or not, each a draft or archived, of either owner.
StoredAtStart ==
    {NoContent} \cup
    {NewContent(o, "twitter", s, 1, 0) : o \in {"u1", "u2"}, s \in {"draft", "archived"}}

PubInit ==
    /\ users = [u \in UserIds |->
                  IF u = "u3" THEN NoUser ELSE NewUser("pro", "active", 0, 0)]
    /\ \E stored \in [StoredIds -> StoredAtStart] :
          contents = [c \in ContentIds |->
                         IF c \in StoredIds THEN stored[c] ELSE NoContent]
    /\ SvcConstructed

GenNext ==
    \/ \E user_id \in UserIds, request \in Requests, ai_text_len \in AiTexts,
          fault \in GenFaults :
            generate_content(user_id, request, ai_text_len, fault)
    \/ \E user_id \in UserIds : ResetMonthlyUsage(user_id)

PubNext ==
    \/ \E user_id \in UserIds, content_id \in PubIds,
          scheduled_time \in 0..(MaxSvcNow + 1), fault \in SchedFaults :
            schedule_content(user_id, content_id, scheduled_time, fault)
    \/ \E user_id \in UserIds, content_id \in PubIds,
          client \in ClientResults, fault \in PubFaults :
            publish_content(user_id, content_id, client, fault)
    \/ \E user_id \in UserIds, content_id \in PubIds, fault \in DelFaults :
            delete_content(user_id, content_id, fault)
    \/ SvcTick

(***************************************************************************)
(* HTTP layer: RateLimitMiddleware.__call__ and the rate_limit decorator's *)
(* wrapper.  Both consult the module's one RateLimiter.  The rate key "ka" *)
(* stands for the key of the one client that sends the requests            *)
(* ("global:<ip>" for the middleware, "<operation>_per_hour:<id>" for the  *)
(* wrapper); rl_limit and rl_window stand for the ceiling and the window   *)
(* the caller passes.                                                      *)
(* http_last is what came of the latest request:                           *)
(*   kind     "response": a response object was returned                   *)
(*            "returned_exception": an HTTPException object was returned   *)
(*            "raised": an exception left the code                         *)
(*   status   the status of the response or of the HTTPException           *)
(*   headers  the rate-limit header names it carries                       *)
(*   raised   the exception that left the code ("" when none)              *)
(*   called   call_next / the wrapped handler was invoked                  *)
(*   checked  is_allowed was consulted                                     *)
(***************************************************************************)
Paths == {"/health", "/metrics", "/content/generate"}
SkippedPaths == {"/health", "/metrics"}

LimitHeaders == {"X-RateLimit-Limit", "X-RateLimit-Remaining", "X-RateLimit-Reset"}
DenyHeaders == LimitHeaders \cup {"Retry-After"}

HttpLast(op, kind, status, headers, raised, called, checked) ==
    [op |-> op, kind |-> kind, status |-> status, headers |-> headers,
     raised |-> raised, called |-> called, checked |-> checked]

\* str(info['limit']) and its like: the keys a header line reads of the info
\* dict; reading a key of the empty dict raises KeyError
info_has_keys(info) == info.present

\* RateLimitMiddleware.__call__(request, call_next) after is_allowed has
\* returned (allowed, info)
middleware_outcome(allowed, info) ==
    IF ~allowed
    THEN \* lines 229-238: the HTTPException is returned, not raised
         IF info_has_keys(info)
         THEN HttpLast("middleware", "returned_exception", 429, DenyHeaders,
                       "", FALSE, TRUE)
         ELSE HttpLast("middleware", "raised", 0, {}, "KeyError", FALSE, TRUE)
    ELSE \* lines 241-246: call_next, then the headers are set from info
         IF info_has_keys(info)
         THEN HttpLast("middleware", "response", 200, LimitHeaders, "", TRUE,
                       TRUE)
         ELSE HttpLast("middleware", "raised", 0, {}, "KeyError", TRUE, TRUE)

RateLimitMiddleware(path, fault) ==
    /\ IF path \in SkippedPaths
       THEN /\ fault = "none"
            /\ http_last' = HttpLast("middleware", "response", 200, {}, "",
                                     TRUE, FALSE)
            /\ UNCHANGED rlVars
       ELSE /\ is_allowed_call("ka", fault)
            /\ LET r == is_allowed_result("ka", rl_limit, rl_window, fault)
               IN  http_last' = middleware_outcome(r.allowed, r.info)
    /\ UNCHANGED OutsideHttp

\* The check the decorator of POST /content/generate makes would deny:
\* the store answers and the key holds as many live members as the limit.
check_denies(key) ==
    /\ redis_client
    /\ zcard(zremrangebyscore(ZLive(key), 0, rl_now - rl_window)) >= rl_limit

\* wrapper(*args, **kwargs) of rate_limit(operation, per_hour=...), called
\* with or without a Request among its positional arguments.
rate_limit_wrapper(op, has_request, fault) ==
    /\ IF ~has_request
       THEN \* lines 138-140: no request object, rate limiting is skipped
            /\ fault = "none"
            /\ http_last' = HttpLast(op, "response", 200, {}, "", TRUE, FALSE)
            /\ UNCHANGED rlVars
       ELSE /\ is_allowed_call("ka", fault)
            /\ LET r == is_allowed_result("ka", rl_limit, rl_window, fault)
               IN  http_last' =
                     IF r.allowed
                     THEN HttpLast(op, "response", 200, {}, "", TRUE, TRUE)
                     ELSE IF info_has_keys(r.info)
                     THEN HttpLast(op, "raised", 429, DenyHeaders,
                                   "HTTPException", FALSE, TRUE)
                     ELSE HttpLast(op, "raised", 0, {}, "KeyError", FALSE, TRUE)
    /\ UNCHANGED OutsideHttp

\* POST /content/generate: FastAPI calls the decorated handler with keyword
\* arguments only (request: CreateContentRequest, user_id), so args is empty.
PostContentGenerate(fault) == rate_limit_wrapper("generate", FALSE, fault)

\* The wrapper called with a starlette Request as a positional argument.
WrapperWithRequest(fault) == rate_limit_wrapper("wrapper", TRUE, fault)

WrapNext ==
    \/ \E fault \in RlFaults : PostContentGenerate(fault)
    \/ \E fault \in RlFaults : WrapperWithRequest(fault)
    \/ RlTick

HttpIdle == http_last = HttpLast("none", "response", 0, {}, "", FALSE, FALSE)

MwNext ==
    \/ \E path \in Paths, fault \in RlFaults : RateLimitMiddleware(path, fault)
    \/ RlTick

(***************************************************************************)
(* ContentAgent._trim_to_limit                                             *)
(*                                                                         *)
(* A string is a sequence of characters; Python's index i is position i+1  *)
(* of the sequence.  The limits stand for the platform limits (280, 2200,  *)
(* 3000), scaled down: like them they are multiples of 5 or not, and large *)
(* enough for a space to lie past 80% of the limit within the limit-3      *)
(* characters that are kept.                                               *)
(***************************************************************************)
MaxOver == 2           \* a body is at most this much longer than the limit

TrimLimits == {4, 20, 21, 25}

Dots == <<".", ".", ".">>

\* s[:n]
PySlice(s, n) ==
    LET stop == IF n >= 0 THEN (IF n < Len(s) THEN n ELSE Len(s))
                ELSE (IF Len(s) + n > 0 THEN Len(s) + n ELSE 0)
    IN  SubSeq(s, 1, stop)

\* s.rfind(ch): the highest index holding ch, or -1
rfind(s, ch) ==
    LET at == {i \in 1..Len(s) : s[i] = ch}
    IN  IF at = {} THEN -1
        ELSE (CHOOSE i \in at : \A j \in at : j <= i) - 1

\* Faulty variant (against C15): the cut leaves no room for the ellipsis
hard_cut_no_room(content_, limit) == PySlice(content_, limit) \o Dots

\* content[:limit-3] + "..."
hard_cut(content_, limit) == PySlice(content_, limit - 3) \o Dots

\* Faulty variant (against C16): a space at exactly 80% is taken as well
past_80_percent_or_at(last_space, limit) == 5 * last_space >= 4 * limit

\* last_space > limit * 0.8.  The float product limit * 0.8 compares with
\* an integer as the exact 4 * limit / 5 does for every limit here (and for
\* every limit up to 3000).
past_80_percent(last_space, limit) == 5 * last_space > 4 * limit

_trim_to_limit(content_, limit) ==
    IF Len(content_) <= limit
    THEN content_
    ELSE LET trimmed == hard_cut(content_, limit)
             last_space == rfind(trimmed, " ")
         IN  IF past_80_percent(last_space, limit)
             THEN PySlice(trimmed, last_space) \o Dots
             ELSE trimmed

\* A body of the given length with spaces at the given indices.
Body(len, spaces) == [i \in 1..len |-> IF (i - 1) \in spaces THEN " " ELSE "a"]

\* The generated bodies: up to two spaces, anywhere.
Bodies(limit) ==
    { Body(len, {i, j} \ {-1}) :
        len \in (limit - 1)..(limit + MaxOver),
        i \in -1..(limit + MaxOver - 1), j \in -1..(limit + MaxOver - 1) }

TrimToLimit ==
    /\ ~trim_done
    /\ trim_result' = _trim_to_limit(trim_content, trim_limit)
    /\ trim_done' = TRUE
    /\ UNCHANGED <<trim_content, trim_limit>>
    /\ UNCHANGED OutsideTrim

TrimInit ==
    /\ trim_limit \in TrimLimits
    /\ trim_content \in Bodies(trim_limit)
    /\ trim_result = <<>>
    /\ trim_done = FALSE

TrimIdle ==
    /\ trim_limit = 4
    /\ trim_content = <<"a">>
    /\ trim_result = <<>>
    /\ trim_done = FALSE

TrimNext == TrimToLimit

(***************************************************************************)
(* PostScheduler.add_optimal_time_scheduling                               *)
(*                                                                         *)
(* A datetime is a record of day (counted from some day 0), hour, minute,  *)
(* second and microsecond.  A time-of-day string "HH:MM" is the sequence   *)
(* of its four digits.                                                     *)
(***************************************************************************)
DateTime(day, hour, minute, second, microsecond) ==
    [day |-> day, hour |-> hour, minute |-> minute, second |-> second,
     microsecond |-> microsecond]

\* datetime's order: a < b
DtLess(a, b) ==
    \/ a.day < b.day
    \/ a.day = b.day /\ a.hour < b.hour
    \/ a.day = b.day /\ a.hour = b.hour /\ a.minute < b.minute
    \/ a.day = b.day /\ a.hour = b.hour /\ a.minute = b.minute
          /\ a.second < b.second
    \/ a.day = b.day /\ a.hour = b.hour /\ a.minute = b.minute
          /\ a.second = b.second /\ a.microsecond < b.microsecond

\* optimal_times.get(platform.lower(), ['12:00'])
SchedPlatforms == {"twitter", "Twitter", "instagram", "linkedin", "tiktok"}

lower(platform) == IF platform = "Twitter" THEN "twitter" ELSE platform

optimal_times(platform) ==
    CASE platform = "twitter"   -> << <<0, 9, 0, 0>>, <<1, 4, 0, 0>>, <<2, 0, 0, 0>> >>
      [] platform = "instagram" -> << <<1, 1, 0, 0>>, <<1, 9, 0, 0>> >>
      [] platform = "linkedin"  -> << <<0, 8, 0, 0>>, <<1, 2, 0, 0>>, <<1, 7, 0, 0>> >>
      [] OTHER                  -> << <<1, 2, 0, 0>> >>

\* hour, minute = map(int, time_str.split(':'))
parse_hour(time_str) == time_str[1] * 10 + time_str[2]
parse_minute(time_str) == time_str[3] * 10 + time_str[4]

\* now.replace(hour=hour, minute=minute, second=0, microsecond=0)
replace_time(dt, time_str) ==
    DateTime(dt.day, parse_hour(time_str), parse_minute(time_str), 0, 0)

\* Faulty variant (against C17): the present instant is taken as well
is_later_or_now(potential_time, now) == ~DtLess(potential_time, now)

\* potential_time > now
is_later(potential_time, now) == DtLess(now, potential_time)

\* next_optimal: the first slot of the list, in list order, that is later
\* than now today, else the list's first slot on the day after.
next_optimal(platform, now) ==
    LET platform_times == optimal_times(lower(platform))
        hits == {i \in 1..Len(platform_times) :
                    is_later(replace_time(now, platform_times[i]), now)}
    IN  IF hits # {}
        THEN replace_time(now, platform_times[CHOOSE i \in hits :
                                                 \A j \in hits : i <= j])
        ELSE replace_time([now EXCEPT !.day = @ + 1], platform_times[1])

\* datetime.isoformat(): "YYYY-MM-DDTHH:MM:SS", with ".ffffff" only when the
\* microsecond is not 0
isoformat(dt) ==
    IF dt.microsecond = 0
    THEN <<dt.day, dt.hour, dt.minute, dt.second>>
    ELSE <<dt.day, dt.hour, dt.minute, dt.second, dt.microsecond>>

\* datetime.fromisoformat()
fromisoformat(str) ==
    DateTime(str[1], str[2], str[3], str[4], IF Len(str) = 5 THEN str[5] ELSE 0)

\* schedule_post(content, platform, scheduled_time): the entry of self.jobs
\* and the run_date of the job's DateTrigger
schedule_post(platform, scheduled_time) ==
    [platform |-> platform, scheduled_time |-> scheduled_time,
     run_date |-> fromisoformat(scheduled_time), status |-> "scheduled"]

add_optimal_time_scheduling ==
    /\ jobs = {}
    /\ jobs' = {schedule_post(sched_platform,
                              isoformat(next_optimal(sched_platform, sched_now)))}
    /\ UNCHANGED <<sched_now, sched_platform>>
    /\ UNCHANGED OutsideSched

SchedInit ==
    /\ sched_platform \in SchedPlatforms
    /\ \E hour \in 0..23, minute \in {0, 59}, second \in {0, 59},
          microsecond \in {0, 1} :
            sched_now = DateTime(0, hour, minute, second, microsecond)
    /\ jobs = {}

SchedIdle ==
    /\ sched_platform = "twitter"
    /\ sched_now = DateTime(0, 0, 0, 0, 0)
    /\ jobs = {}

SchedNext == add_optimal_time_scheduling

(***************************************************************************)
(* GlobalErrorHandler.handle_exception                                     *)
(*                                                                         *)
(* An exception is a record of its class, its str() (`message`, "" for an  *)
(* exception made without text) and, where the class has them, its         *)
(* status_code and detail (HTTPException) or error_code (ApplicationError, *)
(* {} for None).                                                           *)
(***************************************************************************)
MappedErrors ==
    {"UserNotFoundError", "InsufficientCreditsError", "ContentGenerationError",
     "ValidationError", "AuthenticationError", "AuthorizationError",
     "RateLimitExceededError", "ExternalServiceError", "ConfigurationError"}

\* The classes an exception is an instance of.
Mro(class) ==
    IF class \in MappedErrors THEN {class, "ApplicationError", "Exception"}
    ELSE {class, "Exception"}

isinstance(exc, class) == class \in Mro(exc.class)

\* error_code, as the constructors of core/application/exceptions.py set it
error_code_of(class) ==
    CASE class = "UserNotFoundError"        -> {"USER_NOT_FOUND"}
      [] class = "InsufficientCreditsError" -> {"INSUFFICIENT_CREDITS"}
      [] class = "ContentGenerationError"   -> {"CONTENT_GENERATION_ERROR"}
      [] class = "ValidationError"          -> {"VALIDATION_ERROR"}
      [] class = "AuthenticationError"      -> {"AUTHENTICATION_ERROR"}
      [] class = "AuthorizationError"       -> {"AUTHORIZATION_ERROR"}
      [] class = "RateLimitExceededError"   -> {"RATE_LIMIT_EXCEEDED"}
      [] class = "ExternalServiceError"     -> {"EXTERNAL_SERVICE_ERROR"}
      [] class = "ConfigurationError"       -> {"CONFIGURATION_ERROR"}
      [] OTHER                              -> {}

Exc(class, message, status_code, error_code) ==
    [class |-> class, message |-> message, status_code |-> status_code,
     detail |-> message, error_code |-> error_code]

Messages == {"", "boom"}
HttpStatuses == {400, 401, 404, 422, 429, 503}
RequestIds == {{}, {"r1"}, {"r2"}}

Exceptions ==
    {Exc("HTTPException", m, st, {}) : m \in Messages, st \in HttpStatuses}
    \cup {Exc(c, m, 0, error_code_of(c)) : c \in MappedErrors, m \in Messages}
    \cup {Exc("ApplicationError", m, 0, ec) : m \in Messages,
                                               ec \in {{}, {"CUSTOM"}}}
    \cup {Exc(c, m, 0, {}) : c \in {"ValueError", "KeyError"}, m \in Messages}

\* Faulty variant (against C19): two statuses of the table changed places
error_mappings_swapped ==
    << <<"UserNotFoundError", 402, "User not found">>,
       <<"InsufficientCreditsError", 404, "Insufficient credits">>,
       <<"ContentGenerationError", 500, "Content generation failed">>,
       <<"ValidationError", 400, "Validation error">>,
       <<"AuthenticationError", 401, "Authentication failed">>,
       <<"AuthorizationError", 403, "Access denied">>,
       <<"RateLimitExceededError", 429, "Rate limit exceeded">>,
       <<"ExternalServiceError", 502, "External service unavailable">>,
       <<"ConfigurationError", 500, "Configuration error">> >>

\* error_mappings, in the order the dict is iterated
error_mappings ==
    << <<"UserNotFoundError", 404, "User not found">>,
       <<"InsufficientCreditsError", 402, "Insufficient credits">>,
       <<"ContentGenerationError", 500, "Content generation failed">>,
       <<"ValidationError", 400, "Validation error">>,
       <<"AuthenticationError", 401, "Authentication failed">>,
       <<"AuthorizationError", 403, "Access denied">>,
       <<"RateLimitExceededError", 429, "Rate limit exceeded">>,
       <<"ExternalServiceError", 502, "External service unavailable">>,
       <<"ConfigurationError", 500, "Configuration error">> >>

JSONResponse(status_code, code, message, request_id) ==
    [status_code |-> status_code,
     content |-> [error |-> [code |-> code, message |-> message,
                             request_id |-> request_id]]]

\* a or b, of strings
StrOr(a, b) == IF a # "" THEN a ELSE b

handle_exception(exc, request_id_attr) ==
    LET \* getattr(request.state, 'request_id', 'unknown')
        request_id == IF request_id_attr = {} THEN "unknown"
                      ELSE CHOOSE r \in request_id_attr : TRUE
        hits == {i \in 1..Len(error_mappings) :
                    isinstance(exc, error_mappings[i][1])}
    IN  IF isinstance(exc, "HTTPException")
        THEN JSONResponse(exc.status_code, exc.status_code, exc.detail,
                          request_id)
        ELSE IF hits # {}
        THEN LET entry == error_mappings[CHOOSE i \in hits :
                                            \A j \in hits : i <= j]
             IN  JSONResponse(entry[2],
                              \* hasattr(exc, 'error_code') holds of every
                              \* ApplicationError
                              IF exc.error_code = {} THEN "None"
                              ELSE CHOOSE c \in exc.error_code : TRUE,
                              StrOr(exc.message, entry[3]), request_id)
        ELSE IF isinstance(exc, "ApplicationError")
        THEN JSONResponse(500,
                          IF exc.error_code = {} THEN "APPLICATION_ERROR"
                          ELSE CHOOSE c \in exc.error_code : TRUE,
                          StrOr(exc.message, "An application error occurred"),
                          request_id)
        ELSE JSONResponse(500, "INTERNAL_SERVER_ERROR",
                          "An unexpected error occurred", request_id)

HandleException ==
    /\ err_response = {}
    /\ err_response' = {handle_exception(err_exc, err_request_id)}
    /\ UNCHANGED <<err_exc, err_request_id>>
    /\ UNCHANGED OutsideErr

ErrInit ==
    /\ err_exc \in Exceptions
    /\ err_request_id \in RequestIds
    /\ err_response = {}

ErrIdle ==
    /\ err_exc = Exc("ValueError", "", 0, {})
    /\ err_request_id = {}
    /\ err_response = {}

ErrNext == HandleException

(***************************************************************************)
(* JWTManager (api/middleware/auth)                                        *)
(*                                                                         *)
(* A token is the record of its payload and of whether its signature       *)
(* verifies under the secret key.  Time is counted in ticks; the two       *)
(* lifetimes are scaled to ticks.                                          *)
(***************************************************************************)
MaxJwtNow == 4
AccessLife == 1
RefreshLife == 3
MaxTokens == 4

Subjects == {"u1", "u2"}
TokenTypes == {"access", "refresh"}
\* the zone of the server: west of UTC, UTC, east of UTC
Offsets == {-1, 0, 1}

Token(sub, type, exp, signed) ==
    [sub |-> sub, type |-> type, exp |-> exp, signed |-> signed]

NoToken == {}

create_access_token(user_id, now) ==
    Token(user_id, "access", now + AccessLife, TRUE)

create_refresh_token(user_id, now) ==
    Token(user_id, "refresh", now + RefreshLife, TRUE)

\* jwt.decode: "ok", or the JWTError it raises for a signature that does
\* not verify or an exp claim in the past
jwt_decode(token, now) ==
    IF ~token.signed THEN "JWTError"
    ELSE IF token.exp < now THEN "JWTError"
    ELSE "ok"

\* datetime.fromtimestamp(exp): the local wall-clock time of exp, naive
fromtimestamp_local(exp, offset) == exp + offset

\* Faulty variant (against the expiry lemma of C20): the second expiry test
\* rejects a token at the tick of its expiry
expired_locally_at_expiry(exp, now, offset) ==
    now >= fromtimestamp_local(exp, offset)

\* datetime.utcnow() > datetime.fromtimestamp(payload['exp'])
expired_locally(exp, now, offset) ==
    now > fromtimestamp_local(exp, offset)

\* verify_token: "ok" (the payload is returned) or the message of the
\* AuthenticationError raised
verify_token(token, expected_type, now, offset) ==
    IF jwt_decode(token, now) = "JWTError" THEN "Invalid token"
    ELSE IF token.type # expected_type THEN "Invalid token type"
    ELSE IF expired_locally(token.exp, now, offset) THEN "Token has expired"
    ELSE "ok"

JwtLast(op, token, outcome, result) ==
    [op |-> op, token |-> token, at |-> jw_now, outcome |-> outcome,
     result |-> result]

\* What a client can present: a token it was handed, or a payload of its
\* own making, whose signature does not verify.
Presentable ==
    jw_tokens \cup {Token(t.sub, ty, t.exp + d, FALSE) :
                       t \in jw_tokens, ty \in TokenTypes, d \in {0, 1}}

\* AuthService.create_tokens
create_tokens(user_id) ==
    /\ Cardinality(jw_tokens) + 2 <= MaxTokens
    /\ jw_tokens' = jw_tokens \cup {create_access_token(user_id, jw_now),
                                    create_refresh_token(user_id, jw_now)}
    /\ jw_last' = JwtLast("create", NoToken, "ok",
                          {create_access_token(user_id, jw_now)})
    /\ UNCHANGED <<jw_now, jw_offset>>
    /\ UNCHANGED OutsideJwt

refresh_access_token(refresh_token) ==
    /\ refresh_token \in Presentable
    /\ LET verdict == verify_token(refresh_token, "refresh", jw_now, jw_offset)
       IN  jw_last' =
             IF verdict = "ok"
             THEN JwtLast("refresh", {refresh_token}, "ok",
                          {create_access_token(refresh_token.sub, jw_now)})
             ELSE JwtLast("refresh", {refresh_token}, "AuthenticationError",
                          NoToken)
    /\ UNCHANGED <<jw_now, jw_offset, jw_tokens>>
    /\ UNCHANGED OutsideJwt

\* get_current_user: verify_token with the default expected type
get_current_user(token) ==
    /\ token \in Presentable
    /\ LET verdict == verify_token(token, "access", jw_now, jw_offset)
       IN  jw_last' =
             IF verdict = "ok"
             THEN JwtLast("authenticate", {token}, "ok", NoToken)
             ELSE JwtLast("authenticate", {token}, "HTTPException", NoToken)
    /\ UNCHANGED <<jw_now, jw_offset, jw_tokens>>
    /\ UNCHANGED OutsideJwt

JwtTick ==
    /\ jw_now < MaxJwtNow
    /\ jw_now' = jw_now + 1
    /\ UNCHANGED <<jw_offset, jw_tokens, jw_last>>
    /\ UNCHANGED OutsideJwt

JwtInit ==
    /\ jw_now = 0
    /\ jw_offset \in Offsets
    /\ jw_tokens = {}
    /\ jw_last = [op |-> "none", token |-> NoToken, at |-> 0,
                  outcome |-> "ok", result |-> NoToken]

JwtIdle ==
    /\ jw_now = 0
    /\ jw_offset = 0
    /\ jw_tokens = {}
    /\ jw_last = [op |-> "none", token |-> NoToken, at |-> 0,
                  outcome |-> "ok", result |-> NoToken]

JwtNext ==
    \/ \E user_id \in Subjects : create_tokens(user_id)
    \/ \E token \in Presentable : refresh_access_token(token)
    \/ \E token \in Presentable : get_current_user(token)
    \/ JwtTick

(***************************************************************************)
(* Container (infrastructure/di/container)                                 *)
(*                                                                         *)
(* Classes are named by their key (_get_key is one-to-one on them).  An    *)
(* object is the record of its class and of its identity.                  *)
(***************************************************************************)
MaxInstances == 3
MaxRegistrations == 3

Interfaces == {"I1", "I2"}
Implementations == {"A", "B"}
Keys == Interfaces

\* The annotated constructor parameters of a class: B's constructor takes
\* an I1, the others take nothing.
Annotations(cls) == IF cls = "B" THEN <<"I1">> ELSE <<>>

Instance(cls, id) == [cls |-> cls, id |-> id]

\* The part of the container a resolve call reads and writes
DiState ==
    [services |-> _services, next |-> di_next, resolved |-> di_resolved,
     smade |-> di_smade, modes |-> di_modes]

\* A chain of nested resolve calls longer than this repeats a key without
\* any object having been created in between, so it never ends: Python
\* stops it with RecursionError.
DepthLimit == Cardinality(Keys) + 1

NoInstance == {}

RECURSIVE resolve_in(_, _, _)
RECURSIVE resolve_params(_, _, _)
\* the params resolved left to right, st threaded through; the first fault
\* ends the loop
resolve_params(st, params, depth) ==
    IF params = <<>> THEN [st |-> st, raised |-> FALSE]
    ELSE LET first == resolve_in(st, Head(params), depth)
         IN  IF first.raised THEN [st |-> first.st, raised |-> TRUE]
             ELSE resolve_params(first.st, Tail(params), depth)

\* cls(**dependencies) after the dependencies have been resolved
_create_instance(st, cls, depth) ==
    LET after == resolve_params(st, Annotations(cls), depth)
    IN  IF after.raised
        THEN [st |-> after.st, result |-> NoInstance, raised |-> TRUE]
        ELSE [st |-> [after.st EXCEPT !.next = after.st.next + 1],
              result |-> {Instance(cls, after.st.next)}, raised |-> FALSE]

\* Faulty variant (against C21): the singleton branch does not cache
cache_singleton_forgotten(created, key) == created.st

\* self._services[key] = self._create_instance(self._singletons[key])
cache_singleton(created, key) ==
    [created.st EXCEPT !.services[key] = created.result]

\* self._create_instance(self._transients[key])
transient_instance(st, key, cls, depth) == _create_instance(st, cls, depth)

resolve_in(st0, key, depth) ==
    LET st == [st0 EXCEPT !.resolved[key] = TRUE]
    IN  IF depth > DepthLimit
        THEN [st |-> st0, result |-> NoInstance, raised |-> TRUE]
        ELSE IF st.services[key] # {}
        THEN [st |-> st, result |-> st.services[key], raised |-> FALSE]
        ELSE IF _singletons[key] # {}
        THEN LET created == _create_instance(
                                st, CHOOSE c \in _singletons[key] : TRUE,
                                depth + 1)
                 counted == [created EXCEPT !.st.smade[key] = @ + 1]
             IN  IF created.raised THEN created
                 ELSE [st |-> cache_singleton(counted, key),
                       result |-> created.result, raised |-> FALSE]
        ELSE IF _factories[key] # {}
        THEN \* the factory function builds the object itself
             [st |-> [st EXCEPT !.next = @ + 1],
              result |-> {Instance(CHOOSE c \in _factories[key] : TRUE,
                                   st.next)},
              raised |-> FALSE]
        ELSE IF _transients[key] # {}
        THEN transient_instance(st, key,
                                CHOOSE c \in _transients[key] : TRUE,
                                depth + 1)
        ELSE _create_instance([st EXCEPT !.modes[key] = @ \cup {"direct"}],
                              key, depth + 1)

register_singleton(interface, implementation) ==
    /\ di_regs < MaxRegistrations
    /\ di_regs' = di_regs + 1
    /\ _singletons' = [_singletons EXCEPT ![interface] = {implementation}]
    /\ di_modes' = [di_modes EXCEPT ![interface] = @ \cup {"singleton"}]
    /\ UNCHANGED <<_services, _transients, _factories, di_next, di_resolved,
                   di_smade, di_first, di_same, di_last>>
    /\ UNCHANGED OutsideDi

register_transient(interface, implementation) ==
    /\ di_regs < MaxRegistrations
    /\ di_regs' = di_regs + 1
    /\ _transients' = [_transients EXCEPT ![interface] = {implementation}]
    /\ di_modes' = [di_modes EXCEPT ![interface] = @ \cup {"transient"}]
    /\ UNCHANGED <<_services, _singletons, _factories, di_next, di_resolved,
                   di_smade, di_first, di_same, di_last>>
    /\ UNCHANGED OutsideDi

register_factory(interface, built) ==
    /\ di_regs < MaxRegistrations
    /\ di_regs' = di_regs + 1
    /\ _factories' = [_factories EXCEPT ![interface] = {built}]
    /\ di_modes' = [di_modes EXCEPT ![interface] = @ \cup {"factory"}]
    /\ UNCHANGED <<_services, _singletons, _transients, di_next, di_resolved,
                   di_smade, di_first, di_same, di_last>>
    /\ UNCHANGED OutsideDi

\* the caller builds the instance it registers
register_instance(interface, cls) ==
    /\ di_next <= MaxInstances
    /\ di_regs < MaxRegistrations
    /\ di_regs' = di_regs + 1
    /\ _services' = [_services EXCEPT ![interface] = {Instance(cls, di_next)}]
    /\ di_next' = di_next + 1
    /\ di_modes' = [di_modes EXCEPT ![interface] = @ \cup {"instance"}]
    /\ UNCHANGED <<_singletons, _transients, _factories, di_resolved,
                   di_smade, di_first, di_same, di_last>>
    /\ UNCHANGED OutsideDi

resolve(interface) ==
    LET r == resolve_in(DiState, interface, 1)
    IN  /\ r.st.next <= MaxInstances + 1
        /\ _services' = r.st.services
        /\ di_next' = r.st.next
        /\ di_resolved' = r.st.resolved
        /\ di_smade' = r.st.smade
        /\ di_modes' = r.st.modes
        /\ di_first' = [di_first EXCEPT
                           ![interface] = IF @ = {} THEN r.result ELSE @]
        /\ di_same' = [di_same EXCEPT
                          ![interface] = @ /\ (r.raised \/ di_first[interface] = {}
                                                \/ r.result = di_first[interface])]
        /\ di_last' = [key |-> {interface},
                       returned |-> r.result # NoInstance,
                       fresh |-> \A i \in r.result : i.id >= di_next,
                       again |-> di_first[interface] # {},
                       raised |-> IF r.raised THEN "RecursionError" ELSE ""]
        /\ UNCHANGED <<_singletons, _transients, _factories, di_regs>>
        /\ UNCHANGED OutsideDi

DiInit ==
    /\ _services = [k \in Keys |-> {}]
    /\ _singletons = [k \in Keys |-> {}]
    /\ _transients = [k \in Keys |-> {}]
    /\ _factories = [k \in Keys |-> {}]
    /\ di_next = 1
    /\ di_regs = 0
    /\ di_modes = [k \in Keys |-> {}]
    /\ di_resolved = [k \in Keys |-> FALSE]
    /\ di_smade = [k \in Keys |-> 0]
    /\ di_first = [k \in Keys |-> {}]
    /\ di_same = [k \in Keys |-> TRUE]
    /\ di_last = [key |-> {}, returned |-> FALSE, fresh |-> TRUE,
                  again |-> FALSE, raised |-> ""]

DiIdle == DiInit

DiNext ==
    \/ \E i \in Interfaces, c \in Implementations : register_singleton(i, c)
    \/ \E i \in Interfaces, c \in Implementations : register_transient(i, c)
    \/ \E i \in Interfaces, c \in Implementations : register_factory(i, c)
    \/ \E i \in Interfaces, c \in Implementations : register_instance(i, c)
    \/ \E i \in Keys : resolve(i)

(***************************************************************************)
(* ContentQueue (utils/scheduler)                                          *)
(*                                                                         *)
(* An item is the dict handed to add_to_queue: its 'platform' entry ({}    *)
(* when the dict has none) and `n`, the rank of its add_to_queue call,     *)
(* which stands for the rest of its content.                               *)
(***************************************************************************)
MaxAdded == 4

ItemPlatforms == {{"twitter"}, {"linkedin"}, {}}
\* the platform argument: {} is None
Filters == {{"twitter"}, {"linkedin"}, {}}

Item(n, platform) == [n |-> n, platform |-> platform]

\* not platform or item.get('platform') == platform
matches(item, platform) == platform = {} \/ item.platform = platform

\* Faulty variant (against C22): the loop takes the latest matching item
first_match_latest(q, platform) ==
    LET hits == {i \in 1..Len(q) : matches(q[i], platform)}
    IN  IF hits = {} THEN 0 ELSE CHOOSE i \in hits : \A j \in hits : j <= i

\* for item in self.queue: if ...: the index the loop stops at, 0 when it
\* runs to the end
first_match(q, platform) ==
    LET hits == {i \in 1..Len(q) : matches(q[i], platform)}
    IN  IF hits = {} THEN 0 ELSE CHOOSE i \in hits : \A j \in hits : i <= j

\* list.remove(item): the first element equal to item goes
list_remove(q, item) ==
    LET k == CHOOSE i \in 1..Len(q) :
                 q[i] = item /\ \A j \in 1..(i - 1) : q[j] # item
    IN  [i \in 1..(Len(q) - 1) |-> IF i < k THEN q[i] ELSE q[i + 1]]

CqLast(op, platform, result) ==
    [op |-> op, platform |-> platform, result |-> result]

add_to_queue(platform) ==
    /\ cq_added < MaxAdded
    /\ cq_added' = cq_added + 1
    /\ queue' = Append(queue, Item(cq_added + 1, platform))
    /\ cq_last' = CqLast("add_to_queue", platform, {})
    /\ UNCHANGED processed
    /\ UNCHANGED OutsideQueue

get_next(platform) ==
    /\ LET k == first_match(queue, platform)
       IN  IF k = 0
           THEN /\ cq_last' = CqLast("get_next", platform, {})
                /\ UNCHANGED <<queue, processed>>
           ELSE /\ queue' = list_remove(queue, queue[k])
                /\ processed' = Append(processed, queue[k])
                /\ cq_last' = CqLast("get_next", platform, {queue[k]})
    /\ UNCHANGED cq_added
    /\ UNCHANGED OutsideQueue

clear_queue(platform) ==
    /\ queue' = IF platform = {} THEN <<>>
                ELSE SelectSeq(queue, LAMBDA item : item.platform # platform)
    /\ cq_last' = CqLast("clear_queue", platform, {})
    /\ UNCHANGED <<processed, cq_added>>
    /\ UNCHANGED OutsideQueue

QueueInit ==
    /\ queue = <<>>
    /\ processed = <<>>
    /\ cq_added = 0
    /\ cq_last = CqLast("none", {}, {})

QueueIdle == QueueInit

QueueNext ==
    \/ \E platform \in ItemPlatforms : add_to_queue(platform)
    \/ \E platform \in Filters : get_next(platform)
    \/ \E platform \in Filters : clear_queue(platform)

(***************************************************************************)
(* ContentService.generate_content, interleaved                            *)
(*                                                                         *)
(* generate_content is a coroutine: the event loop can run another request *)
(* whenever one is suspended at an await.  A request is at "idle" (not     *)
(* started or finished), or suspended at the await of the AI service       *)
(* ("ai"), of _content_repo.create ("create"), of _user_repo.update        *)
(* ("update") or of predict_performance ("predict").  The repository hands *)
(* each request its own User object.  No collaborator fails here.          *)
(***************************************************************************)
NumRequests == 2

GenRequests == 1..NumRequests

\* lines 52-67: get_by_id returns; the checks run; the AI call starts
cg_begin(r) ==
    /\ cg_pc[r] = "idle"
    /\ cg_items < MaxGenerations
    /\ cg_local' = [cg_local EXCEPT ![r] = cg_user]
    /\ cg_pc' = [cg_pc EXCEPT
                    ![r] = IF can_generate_content(cg_user) THEN "ai" ELSE "idle"]
    /\ UNCHANGED <<cg_user, cg_items>>
    /\ UNCHANGED OutsideCg

\* lines 67-101: the AI result arrives, the Content is built and handed to
\* _content_repo.create
cg_ai_done(r) ==
    /\ cg_pc[r] = "ai"
    /\ cg_pc' = [cg_pc EXCEPT ![r] = "create"]
    /\ UNCHANGED <<cg_user, cg_items, cg_local>>
    /\ UNCHANGED OutsideCg

\* line 101: the repository stores the content
cg_created(r) ==
    /\ cg_pc[r] = "create"
    /\ cg_items' = cg_items + 1
    /\ cg_pc' = [cg_pc EXCEPT ![r] = "update"]
    /\ UNCHANGED <<cg_user, cg_local>>
    /\ UNCHANGED OutsideCg

\* lines 104-105: user.increment_generation_count(); the repository stores
\* the request's user
cg_updated(r) ==
    /\ cg_pc[r] = "update"
    /\ cg_local' = [cg_local EXCEPT ![r] = increment_generation_count(@)]
    /\ cg_user' = increment_generation_count(cg_local[r])
    /\ cg_pc' = [cg_pc EXCEPT ![r] = "predict"]
    /\ UNCHANGED cg_items
    /\ UNCHANGED OutsideCg

\* lines 108-118: the prediction arrives and the response is returned
cg_returned(r) ==
    /\ cg_pc[r] = "predict"
    /\ cg_pc' = [cg_pc EXCEPT ![r] = "idle"]
    /\ UNCHANGED <<cg_user, cg_items, cg_local>>
    /\ UNCHANGED OutsideCg

\* the monthly reset, run while no request is in flight
cg_reset ==
    /\ \A r \in GenRequests : cg_pc[r] = "idle"
    /\ cg_items > 0
    /\ cg_user' = reset_monthly_usage(cg_user)
    /\ cg_items' = 0
    /\ UNCHANGED <<cg_pc, cg_local>>
    /\ UNCHANGED OutsideCg

CgInit ==
    /\ \E g \in 0..10 :
          /\ cg_user = NewUser("free", "active", g, 0)
          /\ cg_items = g
    /\ cg_pc = [r \in GenRequests |-> "idle"]
    /\ cg_local = [r \in GenRequests |-> cg_user]

CgIdle ==
    /\ cg_user = NewUser("free", "active", 0, 0)
    /\ cg_items = 0
    /\ cg_pc = [r \in GenRequests |-> "idle"]
    /\ cg_local = [r \in GenRequests |-> cg_user]

CgNext ==
    \/ \E r \in GenRequests : cg_begin(r)
    \/ \E r \in GenRequests : cg_ai_done(r)
    \/ \E r \in GenRequests : cg_created(r)
    \/ \E r \in GenRequests : cg_updated(r)
    \/ \E r \in GenRequests : cg_returned(r)
    \/ cg_reset

(***************************************************************************)
(* ContentService.publish_content, interleaved                             *)
(*                                                                         *)
(* Requests of the owner for one stored item.  A request is "idle", or     *)
(* suspended at the await of publish_post ("client") or of the             *)
(* _content_repo.update that stores its published ("update") or failed     *)
(* ("update_failed") content.  The repository hands each request its own   *)
(* Content object and no repository call fails here.                       *)
(***************************************************************************)
MaxClientCalls == 3

PubRequests == 1..NumRequests

\* lines 166-181: both get_by_id calls return, can_be_published is tested,
\* publish_post is called
cp_begin(r) ==
    /\ cp_pc[r] = "idle"
    /\ cp_client_calls < MaxClientCalls
    /\ cp_local' = [cp_local EXCEPT ![r] = cp_content]
    /\ IF can_be_published(cp_content)
       THEN /\ cp_pc' = [cp_pc EXCEPT ![r] = "client"]
            /\ cp_client_calls' = cp_client_calls + 1
       ELSE UNCHANGED <<cp_pc, cp_client_calls>>
    /\ UNCHANGED cp_content
    /\ UNCHANGED OutsideCp

\* lines 181-190: publish_post returns; content.publish; update is called
cp_client_returned(r, external_id) ==
    /\ cp_pc[r] = "client"
    /\ cp_local' = [cp_local EXCEPT ![r] = publish(@, external_id, external_id)]
    /\ cp_pc' = [cp_pc EXCEPT ![r] = "update"]
    /\ UNCHANGED <<cp_content, cp_client_calls>>
    /\ UNCHANGED OutsideCp

\* lines 181, 196-199: publish_post raises; content.fail_publication;
\* update is called
cp_client_raised(r) ==
    /\ cp_pc[r] = "client"
    /\ cp_local' = [cp_local EXCEPT ![r] = fail_publication(@, "API Error")]
    /\ cp_pc' = [cp_pc EXCEPT ![r] = "update_failed"]
    /\ UNCHANGED <<cp_content, cp_client_calls>>
    /\ UNCHANGED OutsideCp

\* lines 190-194 and 199-202: the repository stores the request's content;
\* the request returns or raises ContentGenerationError
cp_updated(r) ==
    /\ cp_pc[r] \in {"update", "update_failed"}
    /\ cp_content' = cp_local[r]
    /\ cp_pc' = [cp_pc EXCEPT ![r] = "idle"]
    /\ UNCHANGED <<cp_local, cp_client_calls>>
    /\ UNCHANGED OutsideCp

CpInit ==
    /\ cp_content \in {NewContent("u1", p, st, 1, 0) :
                          p \in {"twitter", "linkedin"},
                          st \in {"draft", "scheduled"}}
    /\ cp_pc = [r \in PubRequests |-> "idle"]
    /\ cp_local = [r \in PubRequests |-> cp_content]
    /\ cp_client_calls = 0

CpIdle ==
    /\ cp_content = NewContent("u1", "twitter", "draft", 1, 0)
    /\ cp_pc = [r \in PubRequests |-> "idle"]
    /\ cp_local = [r \in PubRequests |-> cp_content]
    /\ cp_client_calls = 0

CpNext ==
    \/ \E r \in PubRequests : cp_begin(r)
    \/ \E r \in PubRequests, external_id \in ExternalIds :
          cp_client_returned(r, external_id)
    \/ \E r \in PubRequests : cp_client_raised(r)
    \/ \E r \in PubRequests : cp_updated(r)

(***************************************************************************)
(* rate_limit(operation, per_minute, per_hour, per_day): the wrapper       *)
(*                                                                         *)
(* One identity calls a handler decorated with up to three windows; the    *)
(* call carries a Request, the store answers every command.  A window of   *)
(* 60, 3600 or 86400 seconds is 1, 2 or 3 ticks here.  The TTL of a key is *)
(* left out: it removes a key only after every member has left the window. *)
(***************************************************************************)
MaxRwNow == 3

Suffixes == <<"per_minute", "per_hour", "per_day">>
WindowTicks == [per_minute |-> 1, per_hour |-> 2, per_day |-> 3]

\* lines 148-155: the checks configured, in the order they are made
RECURSIVE checks_from(_, _)
checks_from(limits, i) ==
    IF i > Len(Suffixes) THEN <<>>
    ELSE LET suffix == Suffixes[i]
             rest == checks_from(limits, i + 1)
         IN  IF limits[suffix] = {} THEN rest
             ELSE << [key_suffix |-> suffix,
                      limit |-> CHOOSE n \in limits[suffix] : TRUE,
                      window |-> WindowTicks[suffix]] >> \o rest

checks(limits) == checks_from(limits, 1)

\* is_allowed on the key of one check, the store answering: the members
\* afterwards and whether the call is admitted (lines 54-91)
is_allowed_on(members, limit, window, now) ==
    LET pruned == zremrangebyscore(members, 0, now - window)
    IN  IF zcard(pruned) < limit
        THEN [allowed |-> TRUE, members |-> zadd(pruned, now)]
        ELSE [allowed |-> FALSE, members |-> pruned]

\* lines 158-187: the checks are made in order; the first that denies
\* raises HTTPException(429)
RECURSIVE perform_checks(_, _, _)
perform_checks(zs, todo, now) ==
    IF todo = <<>> THEN [zset |-> zs, denied |-> {}]
    ELSE LET c == Head(todo)
             r == is_allowed_on(zs[c.key_suffix], c.limit, c.window, now)
             zs2 == [zs EXCEPT ![c.key_suffix] = r.members]
         IN  IF r.allowed THEN perform_checks(zs2, Tail(todo), now)
             ELSE [zset |-> zs2, denied |-> {c.key_suffix}]

wrapper ==
    LET r == perform_checks(rw_zset, checks(rw_limits), rw_now)
    IN  /\ rw_zset' = r.zset
        /\ rw_last' = [status |-> IF r.denied = {} THEN 200 ELSE 429,
                       denied |-> r.denied, time |-> rw_now]
        /\ UNCHANGED <<rw_limits, rw_now>>
        /\ UNCHANGED OutsideRw

RwTick ==
    /\ rw_now < MaxRwNow
    /\ rw_now' = rw_now + 1
    /\ UNCHANGED <<rw_limits, rw_zset, rw_last>>
    /\ UNCHANGED OutsideRw

OptionalLimits == {{}, {1}, {2}}

RwInit ==
    /\ rw_limits \in [{"per_minute", "per_hour", "per_day"} -> OptionalLimits]
    /\ rw_zset = [k \in {"per_minute", "per_hour", "per_day"} |-> {}]
    /\ rw_now = 0
    /\ rw_last = [status |-> 0, denied |-> {}, time |-> 0]

RwIdle ==
    /\ rw_limits = [k \in {"per_minute", "per_hour", "per_day"} |-> {}]
    /\ rw_zset = [k \in {"per_minute", "per_hour", "per_day"} |-> {}]
    /\ rw_now = 0
    /\ rw_last = [status |-> 0, denied |-> {}, time |-> 0]

RwNext ==
    \/ wrapper
    \/ RwTick

(***************************************************************************)
(* PostScheduler: schedule_post, _execute_post, _update_job_status         *)
(*                                                                         *)
(* One-off jobs (DateTrigger).  The BackgroundScheduler runs jobs on its    *)
(* own threads: a job can run as soon as add_job has returned, in any      *)
(* order its run dates allow, and also before schedule_post has written    *)
(* the job's entry to self.jobs.                                           *)
(***************************************************************************)
MaxJobs == 3

JobPlatforms == {"twitter", "instagram", "linkedin"}
\* what the platform API call of _execute_post does
PostResults == {"success", "failure", "exception"}

Job(job_id, platform) == [job_id |-> job_id, platform |-> platform]

\* _update_job_status(platform, status): the first entry of the platform
\* that is still 'scheduled' gets the status
_update_job_status(entries, platform, status) ==
    LET hits == {i \in 1..Len(entries) :
                    /\ entries[i].platform = platform
                    /\ entries[i].status = "scheduled"}
    IN  IF hits = {} THEN entries
        ELSE [entries EXCEPT
                 ![CHOOSE i \in hits : \A j \in hits : i <= j].status = status]

\* schedule_post up to the return of self.scheduler.add_job
schedule_post_add_job(platform) ==
    /\ ps_adding = {}
    /\ ps_count < MaxJobs
    /\ ps_count' = ps_count + 1
    /\ ps_armed' = ps_armed \cup {Job(ps_count + 1, platform)}
    /\ ps_adding' = {Job(ps_count + 1, platform)}
    /\ UNCHANGED <<ps_jobs, ps_executed>>
    /\ UNCHANGED OutsidePs

\* schedule_post from self.jobs[job_id] = {...} to its return
schedule_post_record ==
    /\ ps_adding # {}
    /\ LET job == CHOOSE j \in ps_adding : TRUE
       IN  ps_jobs' = Append(ps_jobs, [job_id |-> job.job_id,
                                       platform |-> job.platform,
                                       status |-> "scheduled"])
    /\ ps_adding' = {}
    /\ UNCHANGED <<ps_armed, ps_executed, ps_count>>
    /\ UNCHANGED OutsidePs

\* the scheduler runs _execute_post(content, platform) for a job
_execute_post(job, result) ==
    /\ job \in ps_armed
    /\ ps_armed' = ps_armed \ {job}
    /\ ps_executed' = ps_executed \cup {job.job_id}
    /\ ps_jobs' =
         IF lower(job.platform) \in {"twitter", "instagram"}
         THEN _update_job_status(ps_jobs, job.platform,
                                 IF result = "success" THEN "completed"
                                 ELSE "failed")
         ELSE ps_jobs
    /\ UNCHANGED <<ps_adding, ps_count>>
    /\ UNCHANGED OutsidePs

PsInit ==
    /\ ps_jobs = <<>>
    /\ ps_armed = {}
    /\ ps_executed = {}
    /\ ps_adding = {}
    /\ ps_count = 0

PsIdle == PsInit

PsNext ==
    \/ \E platform \in JobPlatforms : schedule_post_add_job(platform)
    \/ schedule_post_record
    \/ \E job \in ps_armed, result \in PostResults : _execute_post(job, result)

(***************************************************************************)
(* Specifications                                                          *)
(***************************************************************************)
InitRL == RlInit /\ EaInit /\ UserIdle /\ ContentIdle /\ SvcIdle /\ HttpIdle /\ TrimIdle /\ SchedIdle /\ ErrIdle /\ JwtIdle /\ DiIdle /\ QueueIdle /\ CgIdle /\ CpIdle /\ RwIdle /\ PsIdle
SpecRL == InitRL /\ [][RlNext]_vars

InitEA == RlIdle /\ EaInit /\ UserIdle /\ ContentIdle /\ SvcIdle /\ HttpIdle /\ TrimIdle /\ SchedIdle /\ ErrIdle /\ JwtIdle /\ DiIdle /\ QueueIdle /\ CgIdle /\ CpIdle /\ RwIdle /\ PsIdle
SpecEA == InitEA /\ [][EaNext]_vars

InitUser == RlIdle /\ EaInit /\ UserInit /\ ContentIdle /\ SvcIdle /\ HttpIdle /\ TrimIdle /\ SchedIdle /\ ErrIdle /\ JwtIdle /\ DiIdle /\ QueueIdle /\ CgIdle /\ CpIdle /\ RwIdle /\ PsIdle
SpecUser == InitUser /\ [][UserNext]_vars

InitContent == RlIdle /\ EaInit /\ UserIdle /\ ContentInit /\ SvcIdle /\ HttpIdle /\ TrimIdle /\ SchedIdle /\ ErrIdle /\ JwtIdle /\ DiIdle /\ QueueIdle /\ CgIdle /\ CpIdle /\ RwIdle /\ PsIdle
SpecContent == InitContent /\ [][ContentNext]_vars

InitGen == RlIdle /\ EaInit /\ UserIdle /\ ContentIdle /\ GenInit /\ HttpIdle /\ TrimIdle /\ SchedIdle /\ ErrIdle /\ JwtIdle /\ DiIdle /\ QueueIdle /\ CgIdle /\ CpIdle /\ RwIdle /\ PsIdle
SpecGen == InitGen /\ [][GenNext]_vars

InitPub == RlIdle /\ EaInit /\ UserIdle /\ ContentIdle /\ PubInit /\ HttpIdle /\ TrimIdle /\ SchedIdle /\ ErrIdle /\ JwtIdle /\ DiIdle /\ QueueIdle /\ CgIdle /\ CpIdle /\ RwIdle /\ PsIdle
SpecPub == InitPub /\ [][PubNext]_vars

InitMW == RlInit /\ EaInit /\ UserIdle /\ ContentIdle /\ SvcIdle /\ HttpIdle /\ TrimIdle /\ SchedIdle /\ ErrIdle /\ JwtIdle /\ DiIdle /\ QueueIdle /\ CgIdle /\ CpIdle /\ RwIdle /\ PsIdle
SpecMW == InitMW /\ [][MwNext]_vars

InitWrap == RlInit /\ EaInit /\ UserIdle /\ ContentIdle /\ SvcIdle /\ HttpIdle /\ TrimIdle /\ SchedIdle /\ ErrIdle /\ JwtIdle /\ DiIdle /\ QueueIdle /\ CgIdle /\ CpIdle /\ RwIdle /\ PsIdle
SpecWrap == InitWrap /\ [][WrapNext]_vars

InitTrim == RlIdle /\ EaInit /\ UserIdle /\ ContentIdle /\ SvcIdle /\ HttpIdle /\ TrimInit /\ SchedIdle /\ ErrIdle /\ JwtIdle /\ DiIdle /\ QueueIdle /\ CgIdle /\ CpIdle /\ RwIdle /\ PsIdle
SpecTrim == InitTrim /\ [][TrimNext]_vars

InitSched == RlIdle /\ EaInit /\ UserIdle /\ ContentIdle /\ SvcIdle /\ HttpIdle /\ TrimIdle /\ SchedInit /\ ErrIdle /\ JwtIdle /\ DiIdle /\ QueueIdle /\ CgIdle /\ CpIdle /\ RwIdle /\ PsIdle
SpecSched == InitSched /\ [][SchedNext]_vars

InitErr == RlIdle /\ EaInit /\ UserIdle /\ ContentIdle /\ SvcIdle /\ HttpIdle /\ TrimIdle /\ SchedIdle /\ ErrInit /\ JwtIdle /\ DiIdle /\ QueueIdle /\ CgIdle /\ CpIdle /\ RwIdle /\ PsIdle
SpecErr == InitErr /\ [][ErrNext]_vars

InitJwt == RlIdle /\ EaInit /\ UserIdle /\ ContentIdle /\ SvcIdle /\ HttpIdle /\ TrimIdle /\ SchedIdle /\ ErrIdle /\ JwtInit /\ DiIdle /\ QueueIdle /\ CgIdle /\ CpIdle /\ RwIdle /\ PsIdle
SpecJwt == InitJwt /\ [][JwtNext]_vars

InitDi == RlIdle /\ EaInit /\ UserIdle /\ ContentIdle /\ SvcIdle /\ HttpIdle /\ TrimIdle /\ SchedIdle /\ ErrIdle /\ JwtIdle /\ DiInit /\ QueueIdle /\ CgIdle /\ CpIdle /\ RwIdle /\ PsIdle
SpecDi == InitDi /\ [][DiNext]_vars

InitQueue == RlIdle /\ EaInit /\ UserIdle /\ ContentIdle /\ SvcIdle /\ HttpIdle /\ TrimIdle /\ SchedIdle /\ ErrIdle /\ JwtIdle /\ DiIdle /\ QueueInit /\ CgIdle /\ CpIdle /\ RwIdle /\ PsIdle
SpecQueue == InitQueue /\ [][QueueNext]_vars

InitCg == RlIdle /\ EaInit /\ UserIdle /\ ContentIdle /\ SvcIdle /\ HttpIdle /\ TrimIdle /\ SchedIdle /\ ErrIdle /\ JwtIdle /\ DiIdle /\ QueueIdle /\ CgInit /\ CpIdle /\ RwIdle /\ PsIdle
SpecCg == InitCg /\ [][CgNext]_vars

InitCp == RlIdle /\ EaInit /\ UserIdle /\ ContentIdle /\ SvcIdle /\ HttpIdle /\ TrimIdle /\ SchedIdle /\ ErrIdle /\ JwtIdle /\ DiIdle /\ QueueIdle /\ CgIdle /\ CpInit /\ RwIdle /\ PsIdle
SpecCp == InitCp /\ [][CpNext]_vars

InitRw == RlIdle /\ EaInit /\ UserIdle /\ ContentIdle /\ SvcIdle /\ HttpIdle /\ TrimIdle /\ SchedIdle /\ ErrIdle /\ JwtIdle /\ DiIdle /\ QueueIdle /\ CgIdle /\ CpIdle /\ RwInit /\ PsIdle
SpecRw == InitRw /\ [][RwNext]_vars

InitPs == RlIdle /\ EaInit /\ UserIdle /\ ContentIdle /\ SvcIdle /\ HttpIdle /\ TrimIdle /\ SchedIdle /\ ErrIdle /\ JwtIdle /\ DiIdle /\ QueueIdle /\ CgIdle /\ CpIdle /\ RwIdle /\ PsInit
SpecPs == InitPs /\ [][PsNext]_vars

(***************************************************************************)
(* Properties                                                              *)
(***************************************************************************)

\* The latest call on the key was served by the store, as were all before
\* it, and it falls within one window of the first call on the key.
RlWithinFirstWindow(key) ==
    /\ rl_last.key = key
    /\ rl_clean[key]
    /\ \A first \in rl_seen[key] : rl_last.time - first < rl_window

\* The countdown of a sliding window: call number n <= L is admitted with
\* remaining = L - n, call number L + 1 is denied with retry_after = W.
RlCountdown(key) ==
    /\ rl_n[key] <= rl_limit =>
          /\ rl_last.allowed
          /\ rl_last.info.present
          /\ rl_last.info.remaining = rl_limit - rl_n[key]
    /\ rl_n[key] = rl_limit + 1 =>
          /\ ~rl_last.allowed
          /\ rl_last.info.remaining = 0
          /\ rl_last.info.retry_after = {rl_window}

\* C1: starting from an empty key, the calls made within one window of the
\* first call (and served by the store) are admitted one after the other
\* with remaining = L-1, L-2, ..., 0, and call L+1 within that window is
\* denied with remaining = 0 and retry_after = W.
C1_SlidingWindowCountdown ==
    \A key \in RateKeys : RlWithinFirstWindow(key) => RlCountdown(key)

\* The countdown does hold of calls that fall in pairwise different seconds
\* (it fails only where two calls share a second and so share a member).
RlCountdownOfDistinctSeconds ==
    \A key \in RateKeys :
        (RlWithinFirstWindow(key) /\ Cardinality(rl_seen[key]) = rl_n[key])
            => RlCountdown(key)

\* C2: once 50 engage() calls have completed since the last reset and no
\* more than 24 hours have passed since it, engage() returns rate_limited,
\* does not call the completion service and leaves the counter alone; an
\* engage() made more than 24 hours after the last reset resets the counter
\* (and the reset time) and succeeds.
C2_DailyCap ==
    [][ \A completion \in Completions :
          engage(completion) =>
            /\ (ea_ok >= 50 /\ ea_now - last_reset <= 24) =>
                  /\ ea_last'.status = "rate_limited"
                  /\ ~ea_last'.completion_called
                  /\ engagement_count' = engagement_count
            /\ (ea_now - last_reset > 24) =>
                  /\ last_reset' = ea_now
                  /\ ea_last'.status = "success"
                  /\ engagement_count' = IF ea_last'.source = "fallback"
                                         THEN 0 ELSE 1 ]_vars

\* The cap was hit, the 24 hours ran out, and a call has succeeded again.
C2_Witness ==
    /\ ea_was_limited
    /\ last_reset > 24
    /\ ea_last.status = "success"
    /\ ea_last.source = "completion"
    /\ engagement_count = 1

\* C3: Content.schedule(t) succeeds exactly when the status is draft or
\* scheduled, the content has text or media, and t is strictly later than
\* now; it then sets status = scheduled and scheduled_for = t.  Otherwise it
\* raises and leaves status and scheduled_for as they were.
C3_ScheduleRule ==
    [][ \A t \in 0..(MaxCNow + 1) :
          CSchedule(t) =>
            IF /\ content.status \in {"draft", "scheduled"}
               /\ (content.text_len > 0 \/ content.media_count > 0)
               /\ t > c_now
            THEN /\ c_last'.raised = ""
                 /\ content'.status = "scheduled"
                 /\ content'.scheduled_for = {t}
            ELSE /\ c_last'.raised = "ValueError"
                 /\ content'.status = content.status
                 /\ content'.scheduled_for = content.scheduled_for ]_vars

\* A content was scheduled for a later time, and a schedule for the current
\* instant was then refused and left it as it was.
C3_Witness ==
    /\ c_last.op = "schedule"
    /\ c_last.raised = "ValueError"
    /\ c_last.arg = c_now
    /\ content.status = "scheduled"
    /\ content.scheduled_for = {c_now + 1}

\* The order free < pro < enterprise, as pairs (lower, higher).
TierBelow == {<<"free", "pro">>, <<"free", "enterprise">>, <<"pro", "enterprise">>}

\* C9: upgrade_tier(new) succeeds exactly when new is strictly above the
\* current tier (and the tier is then new); otherwise it raises and the tier
\* is unchanged.  No step lowers the tier.
C9_TierMonotonic ==
    [][ /\ \A new_tier \in UserTier :
              UUpgradeTier(new_tier) =>
                IF <<user.tier, new_tier>> \in TierBelow
                THEN ~u_last'.raised /\ user'.tier = new_tier
                ELSE u_last'.raised /\ user'.tier = user.tier
        /\ (user'.tier = user.tier \/ <<user.tier, user'.tier>> \in TierBelow)
      ]_vars

\* An enterprise user was refused the downgrade to pro.
C9_Witness ==
    /\ u_last.op = "upgrade_tier"
    /\ u_last.raised
    /\ u_last.arg = "pro"
    /\ user.tier = "enterprise"

\* C10: can_generate_content() is false for a non-active user, true for an
\* active free user exactly when monthly_generations < 10, true for an
\* active pro or enterprise user; can_auto_engage() is false for a
\* non-active user and for a free user, true for an active pro user exactly
\* when monthly_engagements < 50, true for an active enterprise user.
C10_TierGating ==
    /\ u_last.op = "can_generate_content" =>
          u_last.value =
             ( /\ user.status = "active"
               /\ (user.tier = "free" => user.monthly_generations < 10) )
    /\ u_last.op = "can_auto_engage" =>
          u_last.value =
             ( /\ user.status = "active"
               /\ user.tier # "free"
               /\ (user.tier = "pro" => user.monthly_engagements < 50) )

\* can_generate_content() has refused an active free user at 10 generations
\* who is also at 50 engagements.
C10_Witness ==
    /\ u_last.op = "can_generate_content"
    /\ ~u_last.value
    /\ user.status = "active"
    /\ user.tier = "free"
    /\ user.monthly_generations = 10
    /\ user.monthly_engagements = 50

\* C8: a generate_content call of a stored user succeeds only if the user
\* is active and, on the free tier, below 10 generations, and it then adds
\* exactly 1 to monthly_generations; a call of a non-active user, or of a
\* free user at 10 or more, is rejected with InsufficientCredits without
\* calling the AI service and with both repositories unchanged.
C8_FreeTierQuota ==
    [][ \A user_id \in UserIds, request \in Requests, ai_text_len \in AiTexts,
           fault \in GenFaults \ {"user_get"} :
          (generate_content(user_id, request, ai_text_len, fault)
             /\ users[user_id].exists) =>
            /\ svc_last'.outcome = "ok" =>
                  /\ users[user_id].status = "active"
                  /\ users[user_id].tier = "free" =>
                        users[user_id].monthly_generations < 10
                  /\ users'[user_id].monthly_generations =
                        users[user_id].monthly_generations + 1
            /\ ( \/ users[user_id].status # "active"
                 \/ /\ users[user_id].tier = "free"
                    /\ users[user_id].monthly_generations >= 10 ) =>
                  /\ svc_last'.outcome = "InsufficientCreditsError"
                  /\ ~svc_last'.ai_called
                  /\ contents' = contents
                  /\ users' = users ]_vars

\* An active free user generated content, reached 10 and was then rejected.
C8_Witness ==
    /\ svc_last.op = "generate"
    /\ svc_last.outcome = "InsufficientCreditsError"
    /\ users["u1"].status = "active"
    /\ users["u1"].tier = "free"
    /\ users["u1"].monthly_generations = 10
    /\ Cardinality({c \in ContentIds : contents[c].exists}) = 2

\* The content is stored, owned by the user and publishable.
OwnedPublishable(user_id, content_id) ==
    /\ users[user_id].exists
    /\ contents[content_id].exists
    /\ contents[content_id].user_id = user_id
    /\ contents[content_id].status \in {"draft", "scheduled"}
    /\ (contents[content_id].text_len > 0 \/ contents[content_id].media_count > 0)

C5_PublishRejected ==
    [][ \A user_id \in UserIds, content_id \in PubIds, client \in ClientResults :
          (publish_content(user_id, content_id, client, "none")
             /\ users[user_id].exists
             /\ contents[content_id].exists
             /\ contents[content_id].status \in {"published", "failed", "archived"}) =>
            /\ svc_last'.outcome = "ValidationError"
            /\ ~svc_last'.client_called
            /\ contents' = contents ]_vars

\* A publish of content that is already published, by its owner, was
\* rejected.
C5_Witness ==
    /\ svc_last.op = "publish"
    /\ svc_last.outcome = "ValidationError"
    /\ ~svc_last.client_called
    /\ contents[svc_last.content_id].exists
    /\ contents[svc_last.content_id].status = "published"
    /\ contents[svc_last.content_id].external_id # {}

\* C6: a schedule_content or a DELETE by a user other than the owner fails
\* with a not-found or validation condition (UserNotFound/Validation for the
\* service, 404 for the DELETE) and leaves the stored content and the
\* scheduler registrations unchanged.
C6_OwnershipEnforced ==
    [][ \A user_id \in UserIds, content_id \in PubIds :
          (contents[content_id].exists
             /\ contents[content_id].user_id # user_id) =>
            /\ \A t \in 0..(MaxSvcNow + 1) :
                  schedule_content(user_id, content_id, t, "none") =>
                    /\ svc_last'.outcome \in {"ValidationError", "UserNotFoundError"}
                    /\ contents' = contents
                    /\ scheduled_posts' = scheduled_posts
            /\ delete_content(user_id, content_id, "none") =>
                    /\ svc_last'.http = 404
                    /\ contents' = contents ]_vars

\* What the code does keep of C6: the request of the non-owner fails (the
\* DELETE with whatever error status) and nothing stored changes.
OwnershipFrame ==
    [][ \A user_id \in UserIds, content_id \in PubIds :
          (contents[content_id].exists
             /\ contents[content_id].user_id # user_id) =>
            /\ \A t \in 0..(MaxSvcNow + 1) :
                  schedule_content(user_id, content_id, t, "none") =>
                    /\ svc_last'.outcome \in {"ValidationError", "UserNotFoundError"}
                    /\ contents' = contents
                    /\ scheduled_posts' = scheduled_posts
            /\ delete_content(user_id, content_id, "none") =>
                    /\ svc_last'.http # 200
                    /\ contents' = contents ]_vars

\* C7: DELETE /content/{id} answers 404 when the content does not exist or
\* is owned by another user, and 200 (the content being deleted) when the
\* caller owns it and the repository delete succeeds.
C7_DeleteStatus ==
    [][ \A user_id \in UserIds, content_id \in PubIds :
          delete_content(user_id, content_id, "none") =>
            IF contents[content_id].exists
               /\ contents[content_id].user_id = user_id
            THEN svc_last'.http = 200 /\ ~contents'[content_id].exists
            ELSE svc_last'.http = 404 ]_vars

\* C11: an is_allowed call made without a client (the construction failed),
\* or during which a store command raises, returns allowed with the empty
\* info dict, whatever the key holds and whatever the limit and window are.
C11_FailOpen ==
    [][ \A key \in RateKeys, fault \in RlFaults :
          (is_allowed(key, fault) /\ (~redis_client \/ fault # "none")) =>
            /\ rl_last'.key = key
            /\ rl_last'.allowed
            /\ rl_last'.info = NoInfo ]_vars

\* A call was admitted by a failing store command although the key already
\* held as many members as the limit allows.
C11_Witness ==
    /\ redis_client
    /\ rl_last.key = "ka"
    /\ rl_last.allowed
    /\ rl_last.info = NoInfo
    /\ ~rl_clean["ka"]
    /\ zcard(zset["ka"]) = rl_limit
    /\ rl_limit = MaxLimit

\* C12: whatever RateLimitMiddleware does with a request to a path other
\* than /health and /metrics - admit it, deny it, or admit it because the
\* limiter failed open - it produces a response that carries
\* X-RateLimit-Limit, X-RateLimit-Remaining and X-RateLimit-Reset.
C12_HeadersOnEveryResponse ==
    [][ \A path \in Paths \ SkippedPaths, fault \in RlFaults :
          RateLimitMiddleware(path, fault) =>
            /\ http_last'.raised = ""
            /\ LimitHeaders \subseteq http_last'.headers ]_vars

\* What the code does keep of C12: whenever the limiter answered from the
\* store (no fail-open), admitted or denied, the three headers are there.
HeadersWhenStoreAnswers ==
    [][ \A path \in Paths \ SkippedPaths :
          (RateLimitMiddleware(path, "none") /\ redis_client) =>
            /\ http_last'.raised = ""
            /\ LimitHeaders \subseteq http_last'.headers
            /\ http_last'.status = 429 <=> ~rl_last'.allowed ]_vars

\* C13: whenever the content_generation check for the caller of
\* POST /content/generate would deny, the request is answered 429 with an
\* X-RateLimit-Limit header and the content service is not invoked.
C13_GenerateThrottled ==
    [][ \A fault \in RlFaults :
          (PostContentGenerate(fault) /\ check_denies("ka")) =>
            /\ http_last'.status = 429
            /\ "X-RateLimit-Limit" \in http_last'.headers
            /\ ~http_last'.called ]_vars

\* The wrapper does throttle as C13 says where it finds a Request among its
\* positional arguments.
WrapperThrottlesWithRequest ==
    [][ (WrapperWithRequest("none") /\ check_denies("ka")) =>
            /\ http_last'.status = 429
            /\ "X-RateLimit-Limit" \in http_last'.headers
            /\ ~http_last'.called ]_vars

\* C14: constructing a twitter Content (for a user) with a body of at most
\* 280 characters that is non-empty or comes with media succeeds, and
\* get_character_count() of the entity is the body's length; with a body of
\* 281 or more characters it raises ValueError and no entity comes to be.
C14_TwitterLength ==
    [][ \A text_len \in ConstructLens, media_count \in 0..1 :
          CConstruct("u1", "twitter", text_len, media_count) =>
            /\ (text_len <= 280 /\ (text_len > 0 \/ media_count > 0)) =>
                  /\ c_last'.raised = ""
                  /\ content'.platform = "twitter"
                  /\ content'.status = "draft"
                  /\ get_character_count(content') = text_len
            /\ text_len >= 281 =>
                  /\ c_last'.raised = "ValueError"
                  /\ content' = content ]_vars

\* A twitter Content with a body of exactly 280 characters was constructed
\* in place of a longer linkedin one.
C14_Witness ==
    /\ c_last.op = "construct"
    /\ c_last.raised = ""
    /\ c_last.arg = 280
    /\ content.platform = "twitter"
    /\ get_character_count(content) = 280
    /\ content.media_count = 0

\* C15: _trim_to_limit returns a body no longer than the limit unchanged;
\* a longer one it returns as a string of at most limit characters that
\* ends with "..." and whose part before that ellipsis is a prefix of the
\* body.
C15_TrimToLimit ==
    trim_done =>
        IF Len(trim_content) <= trim_limit
        THEN trim_result = trim_content
        ELSE /\ Len(trim_result) <= trim_limit
             /\ Len(trim_result) >= 3
             /\ SubSeq(trim_result, Len(trim_result) - 2, Len(trim_result)) = Dots
             /\ SubSeq(trim_result, 1, Len(trim_result) - 3)
                  = SubSeq(trim_content, 1, Len(trim_result) - 3)

\* A body two characters over the limit of 25 was cut to exactly 25.
C15_Witness ==
    /\ trim_done
    /\ trim_limit = 25
    /\ Len(trim_content) = 27
    /\ Len(trim_result) = 25
    /\ trim_result[22] = "a"

\* The last space among the limit-3 characters that are kept (-1: none).
LastKeptSpace == rfind(PySlice(trim_content, trim_limit - 3), " ")

\* C16 as stated: a body over the limit is cut at its last kept space
\* exactly when that space's index is at or past 80% of the limit
\* (index >= 0.8 * limit), and otherwise hard at limit-3; either way "..."
\* is appended.
C16_BoundaryAtOrPast80 ==
    (trim_done /\ Len(trim_content) > trim_limit) =>
        IF 5 * LastKeptSpace >= 4 * trim_limit
        THEN trim_result = PySlice(trim_content, LastKeptSpace) \o Dots
        ELSE trim_result = PySlice(trim_content, trim_limit - 3) \o Dots

\* C16 amended: the cut is at the last kept space exactly when its index
\* is strictly past 80% of the limit (index > 0.8 * limit); a space at
\* exactly 80% gets the hard cut at limit-3.
C16_BoundaryPast80 ==
    (trim_done /\ Len(trim_content) > trim_limit) =>
        IF 5 * LastKeptSpace > 4 * trim_limit
        THEN trim_result = PySlice(trim_content, LastKeptSpace) \o Dots
        ELSE trim_result = PySlice(trim_content, trim_limit - 3) \o Dots

\* A body over the limit of 25 with its last kept space at index 21 was cut
\* at that space.
C16_Witness ==
    /\ trim_done
    /\ trim_limit = 25
    /\ Len(trim_content) > 25
    /\ LastKeptSpace = 21
    /\ Len(trim_result) = 24
    /\ trim_result[21] = "a"

\* The slots of the platform's table (12:00 for a platform without one) on
\* the day of the call.
SlotsToday ==
    LET table == IF lower(sched_platform) = "twitter"
                 THEN {<<9, 0>>, <<14, 0>>, <<20, 0>>}
                 ELSE IF lower(sched_platform) = "instagram"
                 THEN {<<11, 0>>, <<19, 0>>}
                 ELSE IF lower(sched_platform) = "linkedin"
                 THEN {<<8, 0>>, <<12, 0>>, <<17, 0>>}
                 ELSE {<<12, 0>>}
    IN  {DateTime(sched_now.day, hm[1], hm[2], 0, 0) : hm \in table}

\* C17: the post is scheduled at the earliest slot of the platform's table
\* that is strictly later than now on the day of the call, and when no slot
\* of the day is later, at the earliest slot of the table on the next day;
\* the scheduled time is strictly later than now.
C17_OptimalTime ==
    \A job \in jobs :
        LET left == {t \in SlotsToday : DtLess(sched_now, t)}
            chosen == job.run_date
            day_before == [chosen EXCEPT !.day = @ - 1]
        IN  /\ job.platform = sched_platform
            /\ DtLess(sched_now, chosen)
            /\ IF left # {}
               THEN /\ chosen \in left
                    /\ \A t \in left : ~DtLess(t, chosen)
               ELSE /\ chosen.day = sched_now.day + 1
                    /\ day_before \in SlotsToday
                    /\ \A t \in SlotsToday : ~DtLess(t, day_before)

\* A twitter post was scheduled at 21:00 for 09:00 of the next day.
C17_Witness ==
    /\ sched_platform = "twitter"
    /\ sched_now = DateTime(0, 21, 0, 0, 0)
    /\ jobs # {}
    /\ \A job \in jobs : job.run_date = DateTime(1, 9, 0, 0, 0)

\* The application faults of core/application/exceptions.py that the
\* ContentService operations declare.
ApplicationFaults ==
    {"UserNotFoundError", "InsufficientCreditsError", "ValidationError",
     "ContentGenerationError"}

\* C18: whatever a repository, a collaborating service or an entity rule
\* raises inside schedule_content or publish_content, the call returns or
\* the fault that leaves it is an application fault.
C18_NoFaultEscapesUnwrapped ==
    svc_last.op \in {"schedule", "publish"} =>
        svc_last.outcome \in ApplicationFaults \cup {"ok"}

\* The status the mapping table of C19 gives a named application fault.
TableStatus(class) ==
    CASE class = "UserNotFoundError"        -> 404
      [] class = "InsufficientCreditsError" -> 402
      [] class = "ContentGenerationError"   -> 500
      [] class = "ValidationError"          -> 400
      [] class = "AuthenticationError"      -> 401
      [] class = "AuthorizationError"       -> 403
      [] class = "RateLimitExceededError"   -> 429
      [] class = "ExternalServiceError"     -> 502
      [] class = "ConfigurationError"       -> 500

\* C19: handle_exception answers a framework HTTP fault with that fault's
\* status, a named application fault with the status of the table, any
\* other application fault with 500, and any other fault with 500, the code
\* INTERNAL_SERVER_ERROR and the generic message; the body is always
\* {error: {code, message, request_id}}.
C19_ErrorMapping ==
    \A response \in err_response :
        /\ DOMAIN response.content = {"error"}
        /\ DOMAIN response.content.error = {"code", "message", "request_id"}
        /\ response.content.error.request_id \in {"unknown", "r1", "r2"}
        /\ err_request_id # {} => response.content.error.request_id \in err_request_id
        /\ err_exc.class = "HTTPException" =>
              response.status_code = err_exc.status_code
        /\ err_exc.class \in MappedErrors =>
              response.status_code = TableStatus(err_exc.class)
        /\ err_exc.class = "ApplicationError" => response.status_code = 500
        /\ err_exc.class \in {"ValueError", "KeyError"} =>
              /\ response.status_code = 500
              /\ response.content.error.code = "INTERNAL_SERVER_ERROR"
              /\ response.content.error.message = "An unexpected error occurred"

\* An InsufficientCreditsError without text was answered 402 with the
\* default message.
C19_Witness ==
    /\ err_exc.class = "InsufficientCreditsError"
    /\ err_exc.message = ""
    /\ err_response # {}
    /\ \A response \in err_response :
          /\ response.status_code = 402
          /\ response.content.error.code = "INSUFFICIENT_CREDITS"
          /\ response.content.error.message = "Insufficient credits"

\* A token that is correctly signed, of the given type and not yet expired
\* at the time of the latest operation.
GoodToken(token, type) ==
    /\ token.signed
    /\ token.type = type
    /\ token.exp >= jw_last.at

\* C20: a refresh succeeds exactly for a correctly signed, unexpired token
\* of type 'refresh' -- whatever refreshes were made with it before, since
\* the token is neither rotated nor invalidated -- and then returns an
\* access token for the same subject; a refresh token presented as an
\* access token is rejected.
C20_TokenRefresh ==
    /\ jw_last.op = "refresh" =>
          \A token \in jw_last.token :
              /\ jw_last.outcome = "ok" <=> GoodToken(token, "refresh")
              /\ jw_last.outcome = "ok" =>
                    \A new \in jw_last.result :
                        new.type = "access" /\ new.sub = token.sub
              /\ jw_last.outcome = "ok" => jw_last.result # NoToken
    /\ jw_last.op = "authenticate" =>
          \A token \in jw_last.token :
              token.type = "refresh" => jw_last.outcome # "ok"

\* What does hold of a refresh: it succeeds only for a correctly signed,
\* unexpired refresh token, the new access token carries the same subject
\* and the lifetime of an access token, and on a server whose local time is
\* not behind UTC every such token is accepted.
RefreshOnlyGoodTokens ==
    jw_last.op = "refresh" =>
        \A token \in jw_last.token :
            /\ jw_last.outcome = "ok" => GoodToken(token, "refresh")
            /\ jw_last.outcome = "ok" =>
                  jw_last.result = {Token(token.sub, "access",
                                          jw_last.at + AccessLife, TRUE)}
            /\ (jw_offset >= 0 /\ GoodToken(token, "refresh")) =>
                  jw_last.outcome = "ok"

\* A refresh was accepted with a refresh token in the last tick of its life.
RefreshReachedOk ==
    /\ jw_last.op = "refresh"
    /\ jw_last.outcome = "ok"
    /\ \A token \in jw_last.token : token.exp = jw_last.at

\* C21: for a key registered as a singleton and in no other way, the
\* implementation is instantiated at most once, not before the first
\* resolve, and every resolve that returns returns that one instance; for a
\* key registered as transient and in no other way, every resolve that
\* returns returns an object created during that call, so distinct from
\* every earlier one.
C21_Lifetimes ==
    \A key \in Keys :
        /\ di_modes[key] = {"singleton"} =>
              /\ di_smade[key] <= 1
              /\ ~di_resolved[key] => di_smade[key] = 0
              /\ di_first[key] # {} => di_smade[key] = 1
              /\ di_same[key]
              /\ di_first[key] \subseteq _services[key]
        /\ (di_modes[key] = {"transient"} /\ di_last.key = {key}
                                           /\ di_last.raised = "") =>
              /\ di_last.returned
              /\ di_last.fresh

\* I1 is a singleton that has just been resolved again, after I2, a
\* transient, was resolved.
C21_Witness ==
    /\ di_modes["I1"] = {"singleton"}
    /\ di_smade["I1"] = 1
    /\ di_last.key = {"I1"}
    /\ di_last.again
    /\ di_modes["I2"] = {"transient"}
    /\ di_first["I2"] # {}

\* The items of a sequence, in order, that satisfy neither / the filter
Others(q, platform) == SelectSeq(q, LAMBDA item : ~matches(item, platform))
Matching(q, platform) == SelectSeq(q, LAMBDA item : matches(item, platform))

\* C22: get_next(p) returns nothing and changes nothing when no queued item
\* matches p; otherwise it removes and returns the matching item that was
\* enqueued earliest, an item never returned before, and leaves the other
\* matching items and the items not matching in their order.
C22_FifoPerPlatform ==
    [][\A platform \in Filters :
          get_next(platform) =>
              IF Matching(queue, platform) = <<>>
              THEN cq_last'.result = {} /\ queue' = queue
              ELSE /\ cq_last'.result = {Head(Matching(queue, platform))}
                   /\ \A item \in cq_last'.result :
                         /\ \A i \in 1..Len(queue) :
                               matches(queue[i], platform) => item.n <= queue[i].n
                         /\ \A i \in 1..Len(processed) : processed[i] # item
                         /\ \A i \in 1..Len(queue') : queue'[i] # item
                   /\ Others(queue', platform) = Others(queue, platform)
                   /\ Matching(queue', platform) = Tail(Matching(queue, platform))
                   /\ Len(queue') = Len(queue) - 1]_vars

\* get_next('linkedin') has just returned the second item added, passing
\* over a twitter item that is still first in the queue and leaving a later
\* linkedin item behind.
C22_Witness ==
    /\ cq_last.op = "get_next"
    /\ cq_last.platform = {"linkedin"}
    /\ cq_last.result = {Item(2, {"linkedin"})}
    /\ queue = <<Item(1, {"twitter"}), Item(3, {"linkedin"})>>

\* C25: a generate_content call that ends by raising a fault leaves both
\* repositories as they were, and a call that returns a response adds one to
\* the monthly_generations of one user.  (Every step of SpecGen that leaves
\* svc_last.op = "generate" is a generate_content call.)
C25_AllOrNothing ==
    [][svc_last'.op = "generate" =>
          IF svc_last'.outcome = "ok"
          THEN \E user_id \in UserIds :
                  users' = [users EXCEPT ![user_id].monthly_generations = @ + 1]
          ELSE users' = users /\ contents' = contents]_vars

\* C23: under interleaved generate_content requests of one active free
\* user, at most 10 content items are created between two resets, and
\* whenever no request is in flight the persisted monthly_generations is the
\* number of items created.
C23_QuotaUnderInterleaving ==
    /\ cg_items <= 10
    /\ (\A r \in GenRequests : cg_pc[r] = "idle") =>
          cg_user.monthly_generations = cg_items

\* C29: a schedule_content call that ends by raising a fault leaves the
\* stored content items as they were, and a content item is stored with
\* status scheduled only if it has been registered with the scheduler.
\* (Every step of SpecPub that leaves svc_last.op = "schedule" is a
\* schedule_content call or changes nothing but the clock.)
C29_ScheduleConsistent ==
    [][/\ (svc_last'.op = "schedule" /\ svc_last'.outcome # "ok") =>
              contents' = contents
       /\ \A c \in ContentIds :
              (contents'[c].exists /\ contents'[c].status = "scheduled") =>
                  c \in scheduled_posts']_vars

\* C24: under interleaved publish_content requests for one item, the
\* client's publish is called at most once for the item, and an item stored
\* as published is never afterwards stored as failed.
C24_PublishOnce ==
    [][/\ cp_client_calls' <= 1
       /\ cp_content.status = "published" => cp_content'.status # "failed"]_vars

\* The calls the key admitted in the seconds from..to
RECURSIVE AdmittedIn(_, _, _)
AdmittedIn(key, from, to) ==
    IF from > to THEN 0
    ELSE (IF from \in DOMAIN rl_admitted[key] THEN rl_admitted[key][from] ELSE 0)
         + AdmittedIn(key, from + 1, to)

\* C26: while the store answers, the calls a key admits within any window
\* of W seconds number at most `limit`, calls of one clock second included.
C26_AtMostLimitPerWindow ==
    \A key \in RateKeys :
        (redis_client /\ rl_clean[key]) =>
            \A from \in 0..MaxRlNow :
                AdmittedIn(key, from, from + rl_window - 1) <= rl_limit

\* The bound does hold when no two calls on the key share a clock second.
AtMostLimitOfDistinctSeconds ==
    \A key \in RateKeys :
        (redis_client /\ rl_clean[key]
                      /\ Cardinality(rl_seen[key]) = rl_n[key]) =>
            \A from \in 0..MaxRlNow :
                AdmittedIn(key, from, from + rl_window - 1) <= rl_limit

\* The entries of a window that count at the given time
LiveEntries(members, window, now) == {m \in members : m > now - window}

\* C27: a call the decorator denies leaves, for every window, as many
\* counted entries as there were before the call.
C27_DeniedConsumesNothing ==
    [][(wrapper /\ rw_last'.status = 429) =>
          \A i \in 1..Len(Suffixes) :
              Cardinality(LiveEntries(rw_zset'[Suffixes[i]],
                                      WindowTicks[Suffixes[i]], rw_now))
              = Cardinality(LiveEntries(rw_zset[Suffixes[i]],
                                        WindowTicks[Suffixes[i]], rw_now))]_vars

\* The check that denies records nothing in its own window.
DenyingCheckRecordsNothing ==
    [][(wrapper /\ rw_last'.status = 429) =>
          \A suffix \in rw_last'.denied :
              LiveEntries(rw_zset'[suffix], WindowTicks[suffix], rw_now)
              = LiveEntries(rw_zset[suffix], WindowTicks[suffix], rw_now)]_vars

\* C30: the entry of a twitter or instagram job that has executed has
\* status completed or failed, and the entry of a job that has not executed
\* is still scheduled.
C30_StatusPerJob ==
    \A i \in 1..Len(ps_jobs) :
        LET entry == ps_jobs[i]
        IN  /\ (entry.job_id \in ps_executed
                  /\ entry.platform \in {"twitter", "instagram"}) =>
                  entry.status \in {"completed", "failed"}
            /\ entry.job_id \notin ps_executed => entry.status = "scheduled"

\* get_engagement_stats()['remaining']
remaining == daily_limit - engagement_count

\* C28: engagement_count counts every engage() that returns 'success',
\* whatever the reply came from, and never exceeds daily_limit, so that at
\* most 50 calls return 'success' between two resets and the remaining
\* count is never negative.
C28_EverySuccessCounted ==
    [][\A completion \in Completions :
          engage(completion) =>
              /\ ea_last'.status = "success" =>
                    engagement_count' =
                        check_reset(engagement_count, last_reset, ea_now).count + 1
              /\ engagement_count' <= daily_limit
              /\ daily_limit - engagement_count' >= 0]_vars

\* The counter itself stays within the limit.
CountWithinDailyLimit == engagement_count <= daily_limit /\ remaining >= 0

====
